---- MODULE Spec2Model ----
(***************************************************************************)
(* The SQL entity store (pkg/services/store/entity/sqlstash) as a state    *)
(* machine: the relations entity, entity_history, entity_labels,           *)
(* entity_ref, entity_nested and entity_folder_tree, and the handlers      *)
(* AdminWrite and Delete run against them, one transaction per step.       *)
(*                                                                         *)
(* A table row is a record holding exactly the columns the INSERT names.   *)
(* A column the statement leaves out has no value (SQL NULL): a WHERE      *)
(* comparison on it is never satisfied.                                    *)
(***************************************************************************)
EXTENDS Integers, Sequences, FiniteSets, Bags, TLC

VARIABLES
    db,         \* the committed relations
    now,        \* the wall clock (time.Now().UnixMilli())
    ulid,       \* the state of the process-wide monotonic ULID source
    nuuid,      \* the number of uuid.New() calls made so far
    latest,     \* history: <<guid, the greatest version ever committed for it>>
    srsp,       \* the last Search applied to the tables, and its response
    txn,        \* the write transactions in flight, by writer
    call,       \* the last call of a function of the API server's key
                \* helpers: its name, its argument and its result
    schema      \* the physical schema and the startup migrator's run on it

vars == <<db, now, ulid, nuuid, latest, srsp, txn, call, schema>>

-----------------------------------------------------------------------------
(* Bounds *)

MaxClock == 1       \* milliseconds the clock may advance
MaxUuid == 2        \* writes that may reach the entity row (one uuid each)
MaxRows == 3        \* entity rows of the tables Search is applied to

-----------------------------------------------------------------------------
(* Program constants *)

MinTimestamp == 1000
MaxIdentifierLen == 64
HistoryLimit == 100
StandardKindFolder == "folder"
InvalidChars == {"/", "#", "$", "@", "?"}

-----------------------------------------------------------------------------
(* Values *)

NoGRN == <<>>                   \* a nil *grn.GRN
NoVersion == <<>>               \* the empty version string
ZeroUlid == <<0, 0>>            \* "00000000000000000000000000"
ClockStart == MinTimestamp

\* A ULID is <<millisecond, entropy>>; the string form is fixed-width, so the
\* lexicographic order of the strings is the order of the pairs, and the
\* empty string sorts first.
VersionLess(a, b) ==
    IF a = NoVersion THEN b # NoVersion
    ELSE IF b = NoVersion THEN FALSE
    ELSE a[1] < b[1] \/ (a[1] = b[1] /\ a[2] < b[2])

\* ulid.Make(): current millisecond; within one millisecond the entropy of the
\* previous ULID incremented, in a new millisecond fresh entropy.
UlidMakeTimeOnly(last, t, seed) == <<t, seed>>

UlidMake(last, t, seed) ==
    IF last # NoVersion /\ last[1] = t THEN <<t, last[2] + 1>> ELSE <<t, seed>>

UuidNames == <<"uuid-1", "uuid-2", "uuid-3", "uuid-4", "uuid-5", "uuid-6">>

\* uuid.New().String(): a value no earlier call returned
UuidNew(n) == UuidNames[n + 1]

\* store.GetUserIDString
GetUserIDString(user) == <<"user", user.UserID>>
NoUser == <<>>                  \* the empty user identifier string

\* grn.GRN.String / ToGRNString: the canonical string of (tenant, kind, id)
GRNString(g) == <<g.TenantID, g.ResourceKind, g.ResourceIdentifier>>
NoParent == <<>>                \* a nil parent_grn

\* createContentsHash(body, meta, status): collision free
createContentsHash(body, meta, status) == <<body, meta, status>>

-----------------------------------------------------------------------------
(* Payloads.  A body or meta document is a sequence of tokens; its size is *)
(* its length.                                                             *)

LabelTok(k, v) == <<"label", k, v>>
RefTok(id) == <<"ref", id>>
ChildTok(id) == <<"child", id>>
Blank == <<"ws">>

BodyA == <<LabelTok("env", "prod"), RefTok("r1"), ChildTok("n1")>>
BodyAWs == <<LabelTok("env", "prod"), Blank, RefTok("r1"), ChildTok("n1")>>
BodyB == <<LabelTok("env", "dev"), LabelTok("team", "a")>>

NoMeta == <<>>
MetaTeam == <<LabelTok("team", "b")>>

NoStatus == <<>>

IsTok(tok, t) == tok[1] = t
TokLabels(doc) ==
    {<<doc[i][2], doc[i][3]>> : i \in {j \in DOMAIN doc : IsTok(doc[j], "label")}}
NotBlank(tok) == ~IsTok(tok, "ws")
IsRef(tok) == IsTok(tok, "ref")
IsChild(tok) == IsTok(tok, "child")

\* The nested children a summary may emit: kind, uid, labels, references and
\* their own children.
Child(id) ==
    IF id = "n1"
    THEN [Kind |-> "panel", UID |-> "n1", Labels |-> {<<"c", "1">>},
          References |-> <<"r2">>, Nested |-> <<"n2">>]
    ELSE [Kind |-> "panel", UID |-> id, Labels |-> {},
          References |-> <<>>, Nested |-> <<>>]

RegisteredKinds == {"playlist", StandardKindFolder}

\* kinds.GetSummaryBuilder(kind)(ctx, uid, body): the summary and the
\* normalised body (blanks stripped)
SummaryBuilder(kind, uid, body) ==
    LET clean == SelectSeq(body, NotBlank)
        refs == SelectSeq(clean, IsRef)
        kids == SelectSeq(clean, IsChild)
    IN [summary |-> [Name |-> "", Labels |-> TokLabels(clean),
                     References |-> [i \in DOMAIN refs |-> refs[i][2]],
                     Nested |-> [i \in DOMAIN kids |-> kids[i][2]]],
        body |-> clean]

\* map assignment summary.model.Labels[k] = v for every meta label
MergeLabels(base, over) ==
    {p \in base : \A q \in over : q[1] # p[1]} \cup over

-----------------------------------------------------------------------------
(* Table helpers *)

Matches(row, col, v) == col \in DOMAIN row /\ row[col] = v

\* DELETE FROM <bag> WHERE col = v
BagDeleteWhere(bag, col, v) ==
    [row \in {x \in DOMAIN bag : ~Matches(x, col, v)} |-> bag[row]]

\* DELETE FROM <set> WHERE col = v
DeleteWhere(rows, col, v) == {x \in rows : ~Matches(x, col, v)}

BagOfSeq(s) ==
    LET RECURSIVE Go(_)
        Go(i) == IF i > Len(s) THEN EmptyBag ELSE SetToBag({s[i]}) (+) Go(i + 1)
    IN Go(1)

\* The schema's keys: entity has the primary key guid and the unique index
\* (tenant_id, kind, uid); entity_history has the key (guid, version).
EntityInsertOK(rows, row) ==
    \A e \in rows :
        /\ e.guid # row.guid
        /\ <<e.tenant_id, e.kind, e.uid>> # <<row.tenant_id, row.kind, row.uid>>

HistoryInsertOK(rows, row) ==
    \A h \in rows : <<h.guid, h.version>> # <<row.guid, row.version>>

\* updateFolderTree(tx, tenant): the tree of the tenant rebuilt from its
\* folder entities
updateFolderTree(d, tenant) ==
    [d EXCEPT !.folder_tree =
        {t \in d.folder_tree : t.tenant_id # tenant} \cup
        {[tenant_id |-> tenant, uid |-> e.uid, parent |-> e.folder] :
            e \in {x \in d.entity :
                     x.tenant_id = tenant /\ x.kind = StandardKindFolder}}]

-----------------------------------------------------------------------------
(* Requests *)

ContainsAny(s, chars) == \E i \in 1..Len(s) : SubSeq(s, i, i) \in chars

\* the characters of the identifiers that take two bytes in UTF-8
TwoByteChars == {"é"}

\* len(s) of a Go string: its length in bytes
ByteLen(s) ==
    Len(s) + Cardinality({i \in 1..Len(s) : SubSeq(s, i, i) \in TwoByteChars})

\* validateGRN without the comparison of the tenant with the caller's
validateGRNAnyTenant(user, g) ==
    IF g = NoGRN THEN [err |-> "missing GRN", grn |-> NoGRN]
    ELSE IF g.ResourceKind = ""
    THEN [err |-> "GRN missing ResourceKind", grn |-> NoGRN]
    ELSE IF g.ResourceIdentifier = ""
    THEN [err |-> "GRN missing ResourceIdentifier", grn |-> NoGRN]
    ELSE [err |-> "",
          grn |-> [g EXCEPT !.TenantID =
                       IF g.TenantID = 0 THEN user.OrgID ELSE g.TenantID]]

\* validateGRN: the GRN with the caller's tenant filled in, or an error
validateGRN(user, g) ==
    IF g = NoGRN THEN [err |-> "missing GRN", grn |-> NoGRN]
    ELSE IF g.TenantID # 0 /\ g.TenantID # user.OrgID
    THEN [err |-> "tenant ID does not match userID", grn |-> NoGRN]
    ELSE IF g.ResourceKind = ""
    THEN [err |-> "GRN missing ResourceKind", grn |-> NoGRN]
    ELSE IF g.ResourceIdentifier = ""
    THEN [err |-> "GRN missing ResourceIdentifier", grn |-> NoGRN]
    ELSE IF ByteLen(g.ResourceIdentifier) > MaxIdentifierLen
    THEN [err |-> "GRN ResourceIdentifier is too long (>64)", grn |-> NoGRN]
    ELSE IF ContainsAny(g.ResourceIdentifier, InvalidChars)
    THEN [err |-> "invalid character in GRN", grn |-> NoGRN]
    ELSE [err |-> "",
          grn |-> [g EXCEPT !.TenantID =
                       IF g.TenantID = 0 THEN user.OrgID ELSE g.TenantID]]

\* prepare with a summary builder for every kind
prepareAnyKind(r) ==
    LET b == SummaryBuilder(r.GRN.ResourceKind, r.GRN.ResourceIdentifier,
                            r.Body)
    IN [err |-> "", summary |-> b.summary, body |-> b.body,
        labels |-> b.summary.Labels]

\* prepare: the summary of the body and the normalised body
prepare(r) ==
    IF r.GRN.ResourceKind \notin RegisteredKinds
    THEN [err |-> "unsupported kind", summary |-> <<>>, body |-> <<>>,
          labels |-> {}]
    ELSE LET b == SummaryBuilder(r.GRN.ResourceKind,
                                 r.GRN.ResourceIdentifier, r.Body)
         IN [err |-> "", summary |-> b.summary, body |-> b.body,
             labels |-> b.summary.Labels]   \* the cached JSON projection

-----------------------------------------------------------------------------
(* Reads *)

EmptyVersionInfo ==
    [Guid |-> "", ETag |-> <<>>, Version |-> NoVersion, CreatedAt |-> 0,
     CreatedBy |-> NoUser, UpdatedAt |-> 0, UpdatedBy |-> NoUser, Size |-> 0,
     Comment |-> ""]

\* the rows of the identity's kind and uid in any tenant
EntityRowsAnyTenant(d, g) ==
    {e \in d.entity : /\ e.kind = g.ResourceKind
                      /\ e.uid = g.ResourceIdentifier}

\* WHERE (tenant_id=? AND kind=? AND uid=?) on entity
EntityRows(d, g) ==
    {e \in d.entity : /\ e.tenant_id = g.TenantID
                      /\ e.kind = g.ResourceKind
                      /\ e.uid = g.ResourceIdentifier}

\* selectForUpdate: the current version row of the identity (no row lock is
\* taken: the FOR UPDATE branch is dead)
selectForUpdate(d, g) ==
    LET rows == EntityRows(d, g)
    IN IF rows = {} THEN [found |-> FALSE, info |-> EmptyVersionInfo]
       ELSE LET e == CHOOSE x \in rows : TRUE
            IN [found |-> TRUE,
                info |-> [Guid |-> e.guid, ETag |-> e.etag,
                          Version |-> e.version, CreatedAt |-> e.created_at,
                          CreatedBy |-> e.created_by,
                          UpdatedAt |-> e.updated_at,
                          UpdatedBy |-> e.updated_by, Size |-> e.size,
                          Comment |-> ""]]

EmptyEntity == [Guid |-> "", GRN |-> NoGRN, Version |-> NoVersion,
                Folder |-> "", Size |-> 0, ETag |-> <<>>]

\* Read with neither a version nor WithBody, WithMeta or WithSummary: the
\* current row of the identity, or the empty entity
Read(d, user, g) ==
    LET v == validateGRN(user, g)
    IN IF v.err # "" THEN [err |-> v.err, entity |-> EmptyEntity]
       ELSE LET rows == EntityRows(d, v.grn)
            IN IF rows = {} THEN [err |-> "", entity |-> EmptyEntity]
               ELSE LET e == CHOOSE x \in rows : TRUE
                    IN [err |-> "",
                        entity |-> [Guid |-> e.guid,
                                    GRN |-> [TenantID |-> e.tenant_id,
                                             ResourceKind |-> e.kind,
                                             ResourceIdentifier |-> e.uid],
                                    Version |-> e.version,
                                    Folder |-> e.folder, Size |-> e.size,
                                    ETag |-> e.etag]]

\* ReadEntityRequest
ReadRequest(g, version, withBody, withMeta, withSummary) ==
    [GRN |-> g, Version |-> version, WithBody |-> withBody,
     WithMeta |-> withMeta, WithSummary |-> withSummary]

NoBody == <<>>          \* a nil body
NoSummary == <<>>       \* no SummaryJson

\* &entity.Entity{}
ZeroEntity ==
    [Guid |-> "", GRN |-> NoGRN, Folder |-> "", Version |-> NoVersion,
     Size |-> 0, ETag |-> <<>>, CreatedAt |-> 0, CreatedBy |-> NoUser,
     UpdatedAt |-> 0, UpdatedBy |-> NoUser, Body |-> NoBody,
     Meta |-> NoBody, Summary |-> NoSummary]

\* rowToReadEntityResponse with the body column never selected
rowToReadEntityResponseNoBody(e, r) ==
    [Guid |-> e.guid,
     GRN |-> [TenantID |-> e.tenant_id, ResourceKind |-> e.kind,
              ResourceIdentifier |-> e.uid],
     Folder |-> e.folder, Version |-> e.version, Size |-> e.size,
     ETag |-> e.etag, CreatedAt |-> e.created_at, CreatedBy |-> e.created_by,
     UpdatedAt |-> e.updated_at, UpdatedBy |-> e.updated_by,
     Body |-> NoBody,
     Meta |-> IF r.WithMeta THEN e.meta ELSE NoBody,
     Summary |-> IF r.WithSummary
                 THEN [Name |-> e.name, Labels |-> e.labels] ELSE NoSummary]

\* getReadSelect and rowToReadEntityResponse: the columns the flags of the
\* request select, scanned into the entity
rowToReadEntityResponse(e, r) ==
    [Guid |-> e.guid,
     GRN |-> [TenantID |-> e.tenant_id, ResourceKind |-> e.kind,
              ResourceIdentifier |-> e.uid],
     Folder |-> e.folder, Version |-> e.version, Size |-> e.size,
     ETag |-> e.etag, CreatedAt |-> e.created_at, CreatedBy |-> e.created_by,
     UpdatedAt |-> e.updated_at, UpdatedBy |-> e.updated_by,
     Body |-> IF r.WithBody THEN e.body ELSE NoBody,
     Meta |-> IF r.WithMeta THEN e.meta ELSE NoBody,
     Summary |-> IF r.WithSummary
                 THEN [Name |-> e.name, Labels |-> e.labels] ELSE NoSummary]

\* WHERE (tenant_id=? AND kind=? AND uid=? AND version=?) on entity_history
VersionRows(d, g, version) ==
    {h \in d.entity_history : /\ Matches(h, "tenant_id", g.TenantID)
                              /\ Matches(h, "kind", g.ResourceKind)
                              /\ Matches(h, "uid", g.ResourceIdentifier)
                              /\ h.version = version}

\* the history row scanned into the entity: the GRN is the request's, the
\* summary is built from the body when asked for, the body is cleared when
\* not asked for
HistoryEntity(h, r) ==
    [ZeroEntity EXCEPT
        !.Guid = h.guid, !.GRN = r.GRN, !.Version = h.version,
        !.Size = h.size, !.ETag = h.etag, !.UpdatedAt = h.updated_at,
        !.UpdatedBy = h.updated_by,
        !.Body = IF r.WithBody
                 THEN (IF r.WithSummary
                          /\ r.GRN.ResourceKind \in RegisteredKinds
                       THEN SummaryBuilder(r.GRN.ResourceKind,
                                           r.GRN.ResourceIdentifier,
                                           h.body).body
                       ELSE h.body)
                 ELSE NoBody,
        !.Summary = IF r.WithSummary /\ r.GRN.ResourceKind \in RegisteredKinds
                    THEN [Name |-> "",
                          Labels |-> SummaryBuilder(r.GRN.ResourceKind,
                                         r.GRN.ResourceIdentifier,
                                         h.body).summary.Labels]
                    ELSE NoSummary]

readFromHistory(d, user, r) ==
    LET v == validateGRN(user, r.GRN)
    IN IF v.err # "" THEN [err |-> v.err, entity |-> ZeroEntity]
       ELSE LET rows == VersionRows(d, v.grn, r.Version)
            IN IF rows = {} THEN [err |-> "", entity |-> ZeroEntity]
               ELSE [err |-> "",
                     entity |-> HistoryEntity(CHOOSE h \in rows : TRUE, r)]

\* Read: of the history when the request names a version, else of the
\* current row of the identity
ReadEntity(d, user, r) ==
    IF r.Version # NoVersion THEN readFromHistory(d, user, r)
    ELSE LET v == validateGRN(user, r.GRN)
         IN IF v.err # "" THEN [err |-> v.err, entity |-> ZeroEntity]
            ELSE LET rows == EntityRows(d, v.grn)
                 IN IF rows = {} THEN [err |-> "", entity |-> ZeroEntity]
                    ELSE [err |-> "",
                          entity |-> rowToReadEntityResponse(
                                         CHOOSE e \in rows : TRUE, r)]

-----------------------------------------------------------------------------
(* Derived index rows *)

NoRows == [labels |-> EmptyBag, refs |-> EmptyBag, nested |-> EmptyBag]

AddRows(a, b) ==
    [labels |-> a.labels (+) b.labels, refs |-> a.refs (+) b.refs,
     nested |-> a.nested (+) b.nested]

\* resolver.Resolve(ref): the verdict stored with the reference
Resolve(ref) == [OK |-> TRUE, Key |-> ref]

RECURSIVE SearchRows(_, _, _, _, _)
RECURSIVE NestedRows(_, _, _, _)

\* writeSearchInfo: the rows one call inserts for `model` under the string
\* grn2, and for its nested children.  `top` is summary.parent_grn, the GRN of
\* the written entity; only a nested summary has a parent_grn column value.
SearchRows(grn2, model, top, isNested, folder) ==
    LET parent == IF isNested THEN GRNString(top) ELSE NoParent
        own ==
          [labels |->
              SetToBag({[grn |-> grn2, label |-> p[1], value |-> p[2],
                         parent_grn |-> parent] : p \in model.Labels}),
           refs |->
              BagOfSeq([i \in DOMAIN model.References |->
                          [grn |-> grn2, parent_grn |-> parent,
                           id |-> model.References[i],
                           resolved_ok |-> Resolve(model.References[i]).OK,
                           resolved_to |-> Resolve(model.References[i]).Key]]),
           nested |-> EmptyBag]
    IN AddRows(own, NestedRows(model.Nested, 1, top, folder))

NestedRows(kids, i, top, folder) ==
    IF i > Len(kids) THEN NoRows
    ELSE LET childModel == Child(kids[i])
             childGrn == GRNString([TenantID |-> top.TenantID,
                                    ResourceKind |-> childModel.Kind,
                                    ResourceIdentifier |-> childModel.UID])
             row == [parent_grn |-> GRNString(top), grn |-> childGrn,
                     tenant_id |-> top.TenantID, kind |-> childModel.Kind,
                     uid |-> childModel.UID, folder |-> folder,
                     labels |-> childModel.Labels]
         IN AddRows(
              AddRows([NoRows EXCEPT !.nested = SetToBag({row})],
                      SearchRows(childGrn, childModel, top, TRUE, folder)),
              NestedRows(kids, i + 1, top, folder))

\* the statement of writeSearchInfo that the injected failure hits, if any
SearchInfoFails(rows, fail) ==
    \/ fail = "label" /\ rows.labels # EmptyBag
    \/ fail \in {"resolver", "ref"} /\ rows.refs # EmptyBag
    \/ fail = "nested" /\ rows.nested # EmptyBag

\* the INSERT statements of writeSearchInfo
InsertSearchRows(d, rows, fail) ==
    IF SearchInfoFails(rows, fail)
    THEN [err |-> "db error", db |-> d]
    ELSE [err |-> "",
          db |-> [d EXCEPT !.entity_labels = @ (+) rows.labels,
                           !.entity_ref = @ (+) rows.refs,
                           !.entity_nested = @ (+) rows.nested]]

writeSearchInfo(d, grn, model, folder, fail) ==
    InsertSearchRows(d, SearchRows(GRNString(grn), model, grn, FALSE, folder),
                     fail)

-----------------------------------------------------------------------------
(* Delete *)

\* the four DELETE statements of doDelete, keyed by guid
DeleteByGuid(d, guid) ==
    [d EXCEPT !.entity = DeleteWhere(@, "guid", guid),
              !.entity_history = DeleteWhere(@, "guid", guid),
              !.entity_labels = BagDeleteWhere(@, "guid", guid),
              !.entity_ref = BagDeleteWhere(@, "guid", guid)]

\* the tail of doDelete without the rebuild of the folder tree
DeleteFolderTreeKept(d1, ent, fail) ==
    IF ent.GRN = NoGRN
    THEN [err |-> "panic: nil pointer dereference", ok |-> FALSE, db |-> d1]
    ELSE [err |-> "", ok |-> TRUE, db |-> d1]

\* the tail of doDelete: ent.GRN is dereferenced after the statements, so a
\* nil GRN panics; a folder has the folder tree of its tenant rebuilt
DeleteFolderTree(d1, ent, fail) ==
    IF ent.GRN = NoGRN
    THEN [err |-> "panic: nil pointer dereference", ok |-> FALSE, db |-> d1]
    ELSE IF ent.GRN.ResourceKind # StandardKindFolder
    THEN [err |-> "", ok |-> TRUE, db |-> d1]
    ELSE IF fail = "foldertree"
    THEN [err |-> "db error", ok |-> TRUE, db |-> d1]
    ELSE [err |-> "", ok |-> TRUE,
          db |-> updateFolderTree(d1, ent.GRN.TenantID)]

\* doDelete: the error, the ok flag and the relations as the call leaves them
doDelete(d, ent, fail) ==
    IF fail = "delete" THEN [err |-> "db error", ok |-> FALSE, db |-> d]
    ELSE DeleteFolderTree(DeleteByGuid(d, ent.Guid), ent, fail)

\* sess.WithTransaction: the callback's writes are committed when it returns
\* nil and discarded when it returns an error (or panics)
WithTransaction(d, tx) == IF tx.err = "" THEN tx.db ELSE d

-----------------------------------------------------------------------------
(* AdminWrite: the callback handed to WithTransaction *)

\* What the callback leaves behind: the error it returns, the relations as
\* its statements left them, the response fields it set (status, GUID,
\* Entity.Version), and the ULID and uuid sources after it.
Ret(err, dd, status, guid, ent, uu, nn) ==
    [err |-> err, db |-> dd, status |-> status, guid |-> guid,
     version |-> ent, ulid |-> uu, nuuid |-> nn]

\* The branch taken on the row selectForUpdate read: an error, the
\* identical-content return, or the version row and creation stamps the
\* write continues with.
TxBranch(err, same, isUpdate, dd, info, createdAt, createdBy) ==
    [err |-> err, same |-> same, isUpdate |-> isUpdate, db |-> dd,
     info |-> info, createdAt |-> createdAt, createdBy |-> createdBy]

\* no row: a create
NotFoundBranch(d, r) ==
    TxBranch("", FALSE, FALSE, d, EmptyVersionInfo, r.CreatedAt, r.CreatedBy)

\* clearHistory: the creation stamps are kept unless the request carries
\* both, the stored entity is deleted, and the write goes on as a create
ClearHistoryBranch(r, info, del) ==
    LET keep == r.CreatedAt < MinTimestamp \/ r.CreatedBy = NoUser
    IN TxBranch(del.err, FALSE, FALSE, del.db, EmptyVersionInfo,
                IF keep THEN info.CreatedAt ELSE r.CreatedAt,
                IF keep THEN info.CreatedBy ELSE r.CreatedBy)

\* an update: the label and reference rows of the guid are deleted first
UpdateBranch(d, r, info, fail) ==
    IF fail = "clear"
    THEN TxBranch("db error", FALSE, TRUE, d, info, r.CreatedAt, r.CreatedBy)
    ELSE TxBranch("", FALSE, TRUE,
                  [d EXCEPT
                     !.entity_labels = BagDeleteWhere(@, "guid", info.Guid),
                     !.entity_ref = BagDeleteWhere(@, "guid", info.Guid)],
                  info, r.CreatedAt, r.CreatedBy)

\* "Same entity": the stored etag is the etag of the request
SameContentNever(stored, etag) == FALSE

SameContent(stored, etag) == stored = etag

SelectBranch(d, grn, r, etag, fail, sel) ==
    IF ~sel.found THEN NotFoundBranch(d, r)
    ELSE IF r.ClearHistory
    THEN ClearHistoryBranch(r, sel.info,
             doDelete(d, [Guid |-> sel.info.Guid, GRN |-> grn], fail))
    ELSE IF SameContent(sel.info.ETag, etag)
    THEN TxBranch("", TRUE, FALSE, d, sel.info, r.CreatedAt, r.CreatedBy)
    ELSE UpdateBranch(d, r, sel.info, fail)

\* rsp.Status left at its initial value
Status0Created(br) == "CREATED"

\* rsp.Status and rsp.GUID as the branch set them
Status0(br) == IF br.isUpdate THEN "UPDATED" ELSE "CREATED"
Guid0(br) == IF br.isUpdate THEN br.info.Guid ELSE ""

\* the optimistic lock: a supplied previousVersion must be the version read
OptimisticLockNone(previousVersion, versionInfo) == TRUE

OptimisticLockFoundOnly(previousVersion, versionInfo) ==
    \/ versionInfo.Version = NoVersion
    \/ previousVersion = NoVersion
    \/ previousVersion = versionInfo.Version

OptimisticLockOK(previousVersion, versionInfo) ==
    previousVersion = NoVersion \/ previousVersion = versionInfo.Version

\* the version descriptor of the new version
NewVersionInfo(info, r, version, size, etag, updatedAt, updatedBy) ==
    [info EXCEPT !.Comment = r.Comment, !.Version = version, !.Size = size,
                 !.ETag = etag, !.UpdatedAt = updatedAt,
                 !.UpdatedBy = updatedBy]

\* the entity_history row of the new version
HistoryRowStale(versionInfo, r, body) ==
    [guid |-> versionInfo.Guid, version |-> versionInfo.Version,
     message |-> versionInfo.Comment, size |-> versionInfo.Size,
     body |-> body, etag |-> versionInfo.ETag, folder |-> r.Folder,
     updated_at |-> 0, updated_by |-> versionInfo.UpdatedBy]

HistoryRow(versionInfo, r, body) ==
    [guid |-> versionInfo.Guid, version |-> versionInfo.Version,
     message |-> versionInfo.Comment, size |-> versionInfo.Size,
     body |-> body, etag |-> versionInfo.ETag, folder |-> r.Folder,
     updated_at |-> versionInfo.UpdatedAt,
     updated_by |-> versionInfo.UpdatedBy]

\* the meta document stored with the row: a fresh UID, the new version and
\* the labels of the request's meta document
MetaDocument(r, uid, version) ==
    [UID |-> uid, ResourceVersion |-> version, Labels |-> TokLabels(r.Meta)]

\* the labels of the meta document set on the summary model
SummaryModel(p, r) ==
    IF TokLabels(r.Meta) # {}
    THEN [p.summary EXCEPT !.Labels = MergeLabels(@, TokLabels(r.Meta))]
    ELSE p.summary

\* the columns INSERT and UPDATE of entity both set
SharedColumnsStale(versionInfo, r, p, meta) ==
    [folder |-> r.Folder, updated_at |-> versionInfo.UpdatedAt,
     updated_by |-> versionInfo.UpdatedBy, body |-> p.body, meta |-> meta,
     status |-> r.Status, size |-> versionInfo.Size,
     etag |-> versionInfo.ETag, version |-> NoVersion,
     name |-> p.summary.Name, labels |-> p.labels]

SharedColumns(versionInfo, r, p, meta) ==
    [folder |-> r.Folder, updated_at |-> versionInfo.UpdatedAt,
     updated_by |-> versionInfo.UpdatedBy, body |-> p.body, meta |-> meta,
     status |-> r.Status, size |-> versionInfo.Size,
     etag |-> versionInfo.ETag, version |-> versionInfo.Version,
     name |-> p.summary.Name, labels |-> p.labels]

Merge(f, g) ==
    [k \in DOMAIN f \cup DOMAIN g |-> IF k \in DOMAIN g THEN g[k] ELSE f[k]]

\* UPDATE entity SET <cols> WHERE guid = ?
UpdateEntity(rows, guid, cols) ==
    {IF Matches(e, "guid", guid) THEN Merge(e, cols) ELSE e : e \in rows}

\* the row INSERT INTO entity adds: the creation stamps default to the
\* update stamps
NewEntityRow(grn, versionInfo, br, cols) ==
    Merge([guid |-> versionInfo.Guid, tenant_id |-> grn.TenantID,
           kind |-> grn.ResourceKind, uid |-> grn.ResourceIdentifier,
           created_at |-> IF br.createdAt < MinTimestamp
                          THEN versionInfo.UpdatedAt ELSE br.createdAt,
           created_by |-> IF br.createdBy = NoUser
                          THEN versionInfo.UpdatedBy ELSE br.createdBy],
          cols)

\* the INSERT without the keys of the entity table
InsertEntityRowUnchecked(d2, erow) ==
    [err |-> "", db |-> [d2 EXCEPT !.entity = @ \cup {erow}]]

InsertEntityRow(d2, erow) ==
    IF EntityInsertOK(d2.entity, erow)
    THEN [err |-> "", db |-> [d2 EXCEPT !.entity = @ \cup {erow}]]
    ELSE [err |-> "constraint failed", db |-> d2]

\* "Add/update the main entity table"
WriteEntityRow(d2, grn, br, versionInfo, cols, fail) ==
    IF fail = "entity" THEN [err |-> "db error", db |-> d2]
    ELSE IF br.isUpdate
    THEN [err |-> "",
          db |-> [d2 EXCEPT
                    !.entity = UpdateEntity(@, versionInfo.Guid, cols)]]
    ELSE InsertEntityRow(d2, NewEntityRow(grn, versionInfo, br, cols))

\* the end of the callback: the result of writeSearchInfo is its result
Indexed(br, versionInfo, uid, n, idx) ==
    Ret(idx.err, idx.db, Status0(br), uid, versionInfo.Version,
        versionInfo.Version, n + 1)

\* after the entity row: the folder tree of a folder's tenant, then the
\* derived index rows
IndexVersion(grn, r, p, n, fail, br, versionInfo, uid, ent) ==
    IF ent.err # ""
    THEN Ret(ent.err, ent.db, Status0(br), uid, versionInfo.Version,
             versionInfo.Version, n + 1)
    ELSE IF grn.ResourceKind # StandardKindFolder
    THEN Indexed(br, versionInfo, uid, n,
                 writeSearchInfo(ent.db, grn, SummaryModel(p, r), r.Folder,
                                 fail))
    ELSE IF fail = "foldertree"
    THEN Ret("db error", ent.db, Status0(br), uid, versionInfo.Version,
             versionInfo.Version, n + 1)
    ELSE Indexed(br, versionInfo, uid, n,
                 writeSearchInfo(updateFolderTree(ent.db, grn.TenantID), grn,
                                 SummaryModel(p, r), r.Folder, fail))

\* the entity_history insert, the meta document and the entity row
StoreVersion(grn, r, p, n, fail, br, versionInfo, uid) ==
    IF fail = "history"
    THEN Ret("db error", br.db, Status0(br), Guid0(br), NoVersion,
             versionInfo.Version, n)
    ELSE IF ~HistoryInsertOK(br.db.entity_history,
                             HistoryRow(versionInfo, r, p.body))
    THEN Ret("constraint failed", br.db, Status0(br), Guid0(br), NoVersion,
             versionInfo.Version, n)
    ELSE IndexVersion(grn, r, p, n, fail, br, versionInfo, uid,
            WriteEntityRow(
                [br.db EXCEPT !.entity_history =
                                 @ \cup {HistoryRow(versionInfo, r, p.body)}],
                grn, br, versionInfo,
                SharedColumns(versionInfo, r, p,
                              MetaDocument(r, uid, versionInfo.Version)),
                fail))

\* after the select: the branch's own return, the optimistic lock, and the
\* new version
LockAndStore(grn, r, p, etag, updatedAt, updatedBy, u, n, fail, version, br) ==
    IF br.err # ""
    THEN Ret(br.err, br.db, Status0(br), Guid0(br), NoVersion, u, n)
    ELSE IF br.same
    THEN Ret("", br.db, "UNCHANGED", "", br.info.Version, u, n)
    ELSE IF ~OptimisticLockOK(r.PreviousVersion, br.info)
    THEN Ret("optimistic lock failed", br.db, Status0(br), Guid0(br),
             NoVersion, u, n)
    ELSE StoreVersion(grn, r, p, n, fail, br,
            NewVersionInfo(br.info, r, version, Len(p.body), etag, updatedAt,
                           updatedBy),
            UuidNew(n))

WriteTx(d, grn, r, p, etag, updatedAt, updatedBy, t, u, n, seed, fail) ==
    IF fail = "select"
    THEN Ret("db error", d, "CREATED", "", NoVersion, u, n)
    ELSE LockAndStore(grn, r, p, etag, updatedAt, updatedBy, u, n, fail,
                      UlidMake(u, t, seed),
                      SelectBranch(d, grn, r, etag, fail,
                                   selectForUpdate(d, grn)))

-----------------------------------------------------------------------------
(* AdminWrite and Delete: the handlers *)

NilStatus == "NIL"      \* the handler returned no response, only an error

\* the status tag of the response once the transaction has returned
FinalStatusKept(tx) == tx.status

FinalStatus(tx) == IF tx.err # "" THEN "ERROR" ELSE tx.status

\* the handler returns before the transaction: no response, only the error
Rejected(d, u, n, err) ==
    [db |-> d, ulid |-> u, nuuid |-> n,
     rsp |-> [op |-> "Write", grn |-> NoGRN, status |-> NilStatus,
              err |-> err, version |-> NoVersion, guid |-> "", ok |-> FALSE]]

\* the response and the committed relations once the transaction returned
WriteResponse(d, grn, tx) ==
    [db |-> WithTransaction(d, tx), ulid |-> tx.ulid, nuuid |-> tx.nuuid,
     rsp |-> [op |-> "Write", grn |-> grn, status |-> FinalStatus(tx),
              err |-> tx.err, version |-> tx.version, guid |-> tx.guid,
              ok |-> FALSE]]

Prepared(d, user, r, t, u, n, seed, fail, grn, p) ==
    IF p.err # "" THEN Rejected(d, u, n, p.err)
    ELSE WriteResponse(d, grn,
            WriteTx(d, grn, r, p,
                    createContentsHash(p.body, r.Meta, r.Status),
                    IF r.UpdatedAt < MinTimestamp THEN t ELSE r.UpdatedAt,
                    IF r.UpdatedBy = NoUser THEN GetUserIDString(user)
                    ELSE r.UpdatedBy,
                    t, u, n, seed, fail))

Validated(d, user, r, t, u, n, seed, fail, v) ==
    IF v.err # "" THEN Rejected(d, u, n, v.err)
    ELSE Prepared(d, user, r, t, u, n, seed, fail, v.grn, prepare(r))

\* AdminWrite: the relations, the response and the ULID and uuid sources
\* after the call
AdminWrite(d, user, r, t, u, n, seed, fail) ==
    Validated(d, user, r, t, u, n, seed, fail, validateGRN(user, r.GRN))

DeleteResponse(d, tx) ==
    [db |-> WithTransaction(d, tx),
     rsp |-> [op |-> "Delete", grn |-> NoGRN, status |-> NilStatus,
              err |-> tx.err, version |-> NoVersion, guid |-> "",
              ok |-> tx.ok]]

\* the callback of Delete: Read, then doDelete on what it returned
DeleteTx(d, rd, fail) ==
    IF rd.err # "" THEN [err |-> rd.err, ok |-> FALSE, db |-> d]
    ELSE doDelete(d, rd.entity, fail)

\* Delete that holds a supplied previousVersion against the version read
DeleteEntityLocked(d, user, r, fail) ==
    IF /\ r.PreviousVersion # NoVersion
       /\ r.PreviousVersion # Read(d, user, r.GRN).entity.Version
    THEN DeleteResponse(d, [err |-> "optimistic lock failed", ok |-> FALSE,
                            db |-> d])
    ELSE DeleteResponse(d, DeleteTx(d, Read(d, user, r.GRN), fail))

\* Delete: the current row is read (outside the transaction), then doDelete
DeleteEntity(d, user, r, fail) ==
    DeleteResponse(d, DeleteTx(d, Read(d, user, r.GRN), fail))

-----------------------------------------------------------------------------
(* History *)

\* the orders in which a query without ORDER BY may return its rows
RECURSIVE Orderings(_)
Orderings(rows) ==
    IF rows = {} THEN {<<>>}
    ELSE UNION {{<<x>> \o rest : rest \in Orderings(rows \ {x})} : x \in rows}

\* WHERE (tenant_id=? AND kind=? AND uid=?) on entity_history.  The insert
\* of AdminWrite names guid, version, message, size, body, etag, folder,
\* access, updated_at and updated_by: a history row has no tenant_id, kind or
\* uid value, and a missing value equals nothing.
HistoryRows(d, g) ==
    {h \in d.entity_history : /\ Matches(h, "tenant_id", g.TenantID)
                              /\ Matches(h, "kind", g.ResourceKind)
                              /\ Matches(h, "uid", g.ResourceIdentifier)}

\* ORDER BY updated_at DESC: rows of equal updated_at in any order
SortedDescending(rows) ==
    \A i \in DOMAIN rows, j \in DOMAIN rows :
        i < j => rows[i].updated_at >= rows[j].updated_at

\* LIMIT 100
AtMost(rows, n) == IF Len(rows) > n THEN SubSeq(rows, 1, n) ELSE rows

VersionInfoOf(h) ==
    [Version |-> h.version, Size |-> h.size, ETag |-> h.etag,
     UpdatedAt |-> h.updated_at, UpdatedBy |-> h.updated_by,
     Comment |-> h.message]

\* History: the responses the call may give
History(d, user, r) ==
    IF validateGRN(user, r.GRN).err # ""
    THEN {[err |-> validateGRN(user, r.GRN).err, versions |-> <<>>]}
    ELSE IF r.NextPageToken # ""
    THEN {[err |-> "next page not supported yet", versions |-> <<>>]}
    ELSE {[err |-> "",
           versions |-> [i \in DOMAIN AtMost(rows, HistoryLimit) |->
                           VersionInfoOf(rows[i])]] :
            rows \in {o \in Orderings(
                               HistoryRows(d, validateGRN(user, r.GRN).grn)) :
                        SortedDescending(o)}}

-----------------------------------------------------------------------------
(* BatchRead *)

\* the loop over the batch: the error of the first sub-request that is
\* refused, or none
RECURSIVE BatchError(_, _, _)
BatchError(user, b, i) ==
    IF i > Len(b) THEN ""
    ELSE IF \/ b[i].WithBody # b[1].WithBody
            \/ b[i].WithSummary # b[1].WithSummary
    THEN "requests must want the same things"
    ELSE IF validateGRN(user, b[i].GRN).err # ""
    THEN validateGRN(user, b[i].GRN).err
    ELSE IF b[i].Version # NoVersion
    THEN "version not supported for batch read (yet?)"
    ELSE BatchError(user, b, i + 1)

\* WHERE ((tenant_id=? AND kind=? AND uid=?) OR ...) on entity
BatchRows(d, user, b) ==
    UNION {EntityRows(d, validateGRN(user, b[i].GRN).grn) : i \in DOMAIN b}

\* BatchRead: the responses the call may give; the rows come in any order
\* and are scanned with the flags of the first sub-request
BatchRead(d, user, b) ==
    IF Len(b) < 1 THEN {[err |-> "missing querires", results |-> <<>>]}
    ELSE IF BatchError(user, b, 1) # ""
    THEN {[err |-> BatchError(user, b, 1), results |-> <<>>]}
    ELSE {[err |-> "",
           results |-> [i \in DOMAIN rows |->
                          rowToReadEntityResponse(rows[i], b[1])]] :
            rows \in Orderings(BatchRows(d, user, b))}

-----------------------------------------------------------------------------
(* Search *)

\* SELECT guid FROM entity_labels WHERE (label = ? AND value = ?) OR ...
\* GROUP BY guid HAVING COUNT(label) = len(r.Labels).  A row inserted without
\* a guid has a NULL guid, and no guid is IN a NULL.
LabelGuids(d, labels) ==
    {gv \in {x.guid : x \in {y \in DOMAIN d.entity_labels :
                                  "guid" \in DOMAIN y}} :
        \A n \in {BagCardinality(
                     [x \in {y \in DOMAIN d.entity_labels :
                                /\ Matches(y, "guid", gv)
                                /\ <<y.label, y.value>> \in labels}
                        |-> d.entity_labels[x]])} :
            n = Cardinality(labels)}

\* the WHERE clause of the entity query without the tenant_id condition
SearchWhereAnyTenant(d, user, r) ==
    {e \in d.entity :
        /\ IF r.Kind = {} THEN TRUE ELSE e.kind \in r.Kind
        /\ IF r.Folder = "" THEN TRUE ELSE e.folder = r.Folder
        /\ IF r.Labels = {} THEN TRUE ELSE e.guid \in LabelGuids(d, r.Labels)}

\* the WHERE clause of the entity query: tenant_id, kind, folder and the
\* label subquery
SearchWhere(d, user, r) ==
    {e \in d.entity :
        /\ e.tenant_id = user.OrgID
        /\ IF r.Kind = {} THEN TRUE ELSE e.kind \in r.Kind
        /\ IF r.Folder = "" THEN TRUE ELSE e.folder = r.Folder
        /\ IF r.Labels = {} THEN TRUE ELSE e.guid \in LabelGuids(d, r.Labels)}

\* selectQuery.toQuery with oneExtra: LIMIT limit + 1
OneExtra(rows, limit) ==
    IF Len(rows) > limit + 1 THEN SubSeq(rows, 1, limit + 1) ELSE rows

SearchResult(e) ==
    [Guid |-> e.guid,
     GRN |-> [TenantID |-> e.tenant_id, ResourceKind |-> e.kind,
              ResourceIdentifier |-> e.uid],
     Version |-> e.version, Folder |-> e.folder]

\* the scan loop: a row is scanned (token is its guid) and then, if the
\* results already number `limit`, token becomes NextPageToken and the loop
\* ends
ScanRows(rows, limit) ==
    IF Len(rows) > limit
    THEN [err |-> "",
          results |-> [i \in 1..limit |-> SearchResult(rows[i])],
          token |-> rows[limit + 1].guid]
    ELSE [err |-> "",
          results |-> [i \in 1..Len(rows) |-> SearchResult(rows[i])],
          token |-> ""]

\* Search that accepts a sort and ignores it
SearchAnySort(d, user, r) ==
    IF r.NextPageToken # ""
    THEN {[err |-> "not yet supported", results |-> <<>>, token |-> ""]}
    ELSE {ScanRows(OneExtra(rows, r.Limit), r.Limit) :
            rows \in Orderings(SearchWhere(d, user, r))}

\* Search: the responses the call may give, one for each order of the rows
Search(d, user, r) ==
    IF r.NextPageToken # "" \/ Len(r.Sort) > 0
    THEN {[err |-> "not yet supported", results |-> <<>>, token |-> ""]}
    ELSE {ScanRows(OneExtra(rows, r.Limit), r.Limit) :
            rows \in Orderings(SearchWhere(d, user, r))}

\* a handler that runs queries only: each response it may give, and the
\* relations as it found them
Queried(d, rsps) == {[rsp |-> x, db |-> d] : x \in rsps}

\* Watch
Watch(d) == [err |-> "unimplemented", db |-> d]

-----------------------------------------------------------------------------
(* The requests the model issues *)

Caller == [OrgID |-> 1, UserID |-> 1]

\* a caller of another tenant
OtherCaller == [OrgID |-> 2, UserID |-> 2]
Callers == {Caller, OtherCaller}

FolderGRN ==
    [TenantID |-> 0, ResourceKind |-> StandardKindFolder,
     ResourceIdentifier |-> "a"]

PlaylistGRN ==
    [TenantID |-> 0, ResourceKind |-> "playlist", ResourceIdentifier |-> "a"]

ReqGRNs == {FolderGRN, PlaylistGRN}

\* previousVersion: none, a version that was never stored, the stored
\* version, a version of the history
PreviousVersions(d) ==
    {NoVersion, ZeroUlid} \cup {e.version : e \in d.entity}
        \cup {h.version : h \in d.entity_history}

PlainWrite(g, body, meta, pv, clear) ==
    [GRN |-> g, Body |-> body, Meta |-> meta, Status |-> NoStatus,
     Folder |-> "", PreviousVersion |-> pv, ClearHistory |-> clear,
     Comment |-> "", CreatedAt |-> 0, CreatedBy |-> NoUser,
     UpdatedAt |-> 0, UpdatedBy |-> NoUser]

PlainWrites(d) ==
    {PlainWrite(FolderGRN, b, NoMeta, pv, c) :
        b \in {BodyA, BodyB}, pv \in PreviousVersions(d), c \in BOOLEAN}

\* a write whose meta document carries a label, a write into a folder, and a
\* write to a second identity
OtherWrites ==
    {PlainWrite(FolderGRN, BodyB, MetaTeam, NoVersion, FALSE),
     [PlainWrite(FolderGRN, BodyB, NoMeta, NoVersion, FALSE)
        EXCEPT !.Folder = "f1"],
     PlainWrite(PlaylistGRN, BodyA, NoMeta, NoVersion, FALSE)}

\* the writes the steps of the state machine perform
IssuedWrites(d) == PlainWrites(d) \cup OtherWrites

\* a body that differs from BodyA only in blanks, and other content for the
\* second identity
FurtherWrites ==
    {PlainWrite(FolderGRN, BodyAWs, NoMeta, NoVersion, FALSE),
     PlainWrite(PlaylistGRN, BodyB, NoMeta, NoVersion, FALSE)}

\* the writes the properties examine in every state: the issued ones and
\* the further ones
WriteRequests(d) == IssuedWrites(d) \cup FurtherWrites

\* the statements of the write transaction a database error or a cancelled
\* context can hit
FailPoints ==
    {"select", "delete", "clear", "history", "entity", "foldertree", "label",
     "resolver", "ref", "nested"}

\* the writes that are run with an injected failure: a folder whose body
\* emits labels, references and nested children
FailingWrites(d) ==
    {PlainWrite(FolderGRN, BodyA, NoMeta, NoVersion, c) : c \in BOOLEAN}

\* the writes of a caller whose GRN names the tenant of the other caller
CrossTenantWrites(user) ==
    {PlainWrite([g EXCEPT !.TenantID = c.OrgID], b, NoMeta, NoVersion, clear) :
        g \in ReqGRNs, c \in Callers \ {user}, b \in {BodyA, BodyB},
        clear \in BOOLEAN}

\* the write the caller of the other tenant performs
OtherTenantWrites ==
    {PlainWrite(FolderGRN, BodyB, NoMeta, NoVersion, FALSE)}

\* a kind with no summary builder
UnknownKindGRN ==
    [TenantID |-> 0, ResourceKind |-> "dashboard", ResourceIdentifier |-> "a"]

\* identifiers of 64 and of 65 characters
Uid64 == "aaaaaaaaaaaaaaaaaaaaaaaaaaaaaaaaaaaaaaaaaaaaaaaaaaaaaaaaaaaaaaaa"
Uid65 == "aaaaaaaaaaaaaaaaaaaaaaaaaaaaaaaaaaaaaaaaaaaaaaaaaaaaaaaaaaaaaaaaa"

\* an identifier of 64 characters, one of them of two bytes
Uid64Wide == "aaaaaaaaaaaaaaaaaaaaaaaaaaaaaaaaaaaaaaaaaaaaaaaaaaaaaaaaaaaaaaaé"

\* GRNs validateGRN refuses: none, no kind, no identifier, an identifier
\* that is too long, an identifier with a character that is not allowed
MalformedGRNs ==
    {NoGRN, [FolderGRN EXCEPT !.ResourceKind = ""],
     [FolderGRN EXCEPT !.ResourceIdentifier = ""],
     [FolderGRN EXCEPT !.ResourceIdentifier = Uid65]}
    \cup {[FolderGRN EXCEPT !.ResourceIdentifier = u] :
             u \in {"a/b", "a#b", "a$b", "a@b", "a?b"}}

\* the writes of a kind with no summary builder
UnsupportedWrites(d) ==
    {PlainWrite(UnknownKindGRN, b, NoMeta, pv, c) :
        b \in {BodyA, BodyB}, pv \in PreviousVersions(d), c \in BOOLEAN}

\* the writes that return before the transaction
RejectedWrites ==
    {PlainWrite(g, BodyA, NoMeta, NoVersion, FALSE) :
        g \in MalformedGRNs \cup {UnknownKindGRN}}

\* the Reads of a batch: of either identity, with or without a version,
\* with every combination of the flags
ReadRequests ==
    {ReadRequest(g, v, wb, wm, ws) :
        g \in ReqGRNs, v \in {NoVersion, ZeroUlid},
        wb \in BOOLEAN, wm \in BOOLEAN, ws \in BOOLEAN}

\* the batches: none, one or two sub-requests, the first with all flags or
\* none
Batches ==
    {<<>>} \cup {<<r>> : r \in ReadRequests}
    \cup {<<r1, r2>> :
             r1 \in {r \in ReadRequests : /\ r.WithBody = r.WithMeta
                                          /\ r.WithMeta = r.WithSummary},
             r2 \in ReadRequests}

EntropySeeds == {0}

DeleteRequests(d) ==
    {[GRN |-> g, PreviousVersion |-> NoVersion] : g \in ReqGRNs}
    \cup {[GRN |-> FolderGRN, PreviousVersion |-> ZeroUlid]}

FailingDeletes(d) == {[GRN |-> FolderGRN, PreviousVersion |-> NoVersion]}

-----------------------------------------------------------------------------
(* The state machine *)

EmptyDB ==
    [entity |-> {}, entity_history |-> {}, entity_labels |-> EmptyBag,
     entity_ref |-> EmptyBag, entity_nested |-> EmptyBag,
     folder_tree |-> {}, migration_log |-> {"Initialize entity tables"}]

NoSearch == <<>>        \* no Search was applied
NoTxns == <<>>          \* no transaction is in flight
NoCall == <<>>          \* no key helper was called
NoSchema == <<>>        \* the migrator is not part of the run

Init ==
    /\ db = EmptyDB
    /\ now = ClockStart
    /\ ulid = NoVersion
    /\ nuuid = 0
    /\ latest = {}
    /\ srsp = NoSearch
    /\ txn = NoTxns
    /\ call = NoCall
    /\ schema = NoSchema

\* the <<guid, version>> pairs a step commits
NewlyCommitted(d, dd) ==
    {<<h.guid, h.version>> : h \in dd.entity_history \ d.entity_history}

\* of the pairs, for each guid the one of the greatest version
Greatest(pairs) ==
    {p \in pairs :
        \A q \in pairs : q[1] = p[1] => ~VersionLess(p[2], q[2])}

\* the sources stay within the bounds
WithinBounds(out) ==
    /\ out.nuuid <= MaxUuid
    /\ IF out.ulid = NoVersion THEN TRUE ELSE out.ulid[2] < MaxUuid

\* AdminWrite, every statement succeeding
Write ==
    \E r \in IssuedWrites(db), seed \in EntropySeeds :
        \E out \in {AdminWrite(db, Caller, r, now, ulid, nuuid, seed,
                               "none")} :
            /\ WithinBounds(out)
            /\ db' = out.db
            /\ ulid' = out.ulid
            /\ nuuid' = out.nuuid
            /\ latest' = Greatest(latest \cup NewlyCommitted(db, out.db))
            /\ UNCHANGED <<now, srsp, txn, call, schema>>

\* AdminWrite with a database error (or a cancelled context) at one statement
WriteFailing ==
    \E r \in FailingWrites(db), fail \in FailPoints :
        \E out \in {AdminWrite(db, Caller, r, now, ulid, nuuid, 0, fail)} :
            /\ WithinBounds(out)
            /\ db' = out.db
            /\ ulid' = out.ulid
            /\ nuuid' = out.nuuid
            /\ latest' = Greatest(latest \cup NewlyCommitted(db, out.db))
            /\ UNCHANGED <<now, srsp, txn, call, schema>>

\* AdminWrite by the caller of the other tenant
WriteOtherTenant ==
    \E r \in OtherTenantWrites :
        \E out \in {AdminWrite(db, OtherCaller, r, now, ulid, nuuid, 0,
                               "none")} :
            /\ WithinBounds(out)
            /\ db' = out.db
            /\ ulid' = out.ulid
            /\ nuuid' = out.nuuid
            /\ latest' = Greatest(latest \cup NewlyCommitted(db, out.db))
            /\ UNCHANGED <<now, srsp, txn, call, schema>>

Delete ==
    \E r \in DeleteRequests(db) :
        \E out \in {DeleteEntity(db, Caller, r, "none")} :
            /\ db' = out.db
            /\ UNCHANGED <<now, ulid, nuuid, latest, srsp, txn, call, schema>>

\* Delete with a database error at one statement
DeleteFailing ==
    \E r \in FailingDeletes(db), fail \in {"delete", "foldertree"} :
        \E out \in {DeleteEntity(db, Caller, r, fail)} :
            /\ db' = out.db
            /\ UNCHANGED <<now, ulid, nuuid, latest, srsp, txn, call, schema>>

\* the clock advances
Tick ==
    /\ now < ClockStart + MaxClock
    /\ now' = now + 1
    /\ UNCHANGED <<db, ulid, nuuid, latest, srsp, txn, call, schema>>

Next ==
    \/ Write
    \/ WriteFailing
    \/ WriteOtherTenant
    \/ Delete
    \/ DeleteFailing
    \/ Tick

Spec == Init /\ [][Next]_vars

-----------------------------------------------------------------------------
(* Concurrent requests.  Two requests run at once, each in its own         *)
(* transaction at READ COMMITTED: a transaction reads what is committed    *)
(* when its statement runs, its own statements are invisible to others     *)
(* until it commits, and selectForUpdate takes no lock.  A request suspends *)
(* at its database round trips: after the select, after the                *)
(* entity_history insert, and after the entity statement and the DELETEs   *)
(* of the search rows.  One transaction at a time is between its first     *)
(* write and its commit.                                                   *)

Procs == {"w1", "w2"}

IdleTxn ==
    [pc |-> "idle", op |-> "", req |-> <<>>, sel |-> <<>>, views |-> <<>>,
     tx |-> <<>>, status |-> NilStatus, err |-> ""]

\* the statements of the AdminWrite callback that follow selectForUpdate,
\* run on the relations d with the row `sel` that the select returned
AfterSelectHashed(d, sel, user, r, t, u, n, fail, grn, p, etag) ==
    LockAndStore(grn, r, p, etag, t, GetUserIDString(user), u, n, fail,
                 UlidMake(u, t, 0),
                 SelectBranch(d, grn, r, etag, fail, sel))

AfterSelectPrepared(d, sel, user, r, t, u, n, fail, grn, p) ==
    AfterSelectHashed(d, sel, user, r, t, u, n, fail, grn, p,
                      createContentsHash(p.body, r.Meta, r.Status))

AfterSelect(d, sel, user, r, t, u, n, fail) ==
    AfterSelectPrepared(d, sel, user, r, t, u, n, fail,
                        validateGRN(user, r.GRN).grn, prepare(r))

\* what the other sessions read while a transaction holds statements it has
\* not committed: every statement of the callback goes through tx
InFlight(d, view) == d

\* the first statement of doDelete
DeletedEntityRow(d, guid) == [d EXCEPT !.entity = DeleteWhere(@, "guid", guid)]

\* the writes of the concurrent requests: the folder with either body and
\* either meta document, with no previousVersion or with the stored version
ConcWrites(d) ==
    {PlainWrite(FolderGRN, b, m, pv, FALSE) :
        b \in {BodyA, BodyB}, m \in {NoMeta, MetaTeam},
        pv \in {NoVersion} \cup {e.version : e \in d.entity}}

\* the server before the concurrent requests: empty, or the folder written
\* once
NothingWritten ==
    [db |-> EmptyDB, ulid |-> NoVersion, nuuid |-> 0]

SeedWrite ==
    AdminWrite(EmptyDB, Caller,
               PlainWrite(FolderGRN, BodyAWs, NoMeta, NoVersion, FALSE),
               ClockStart, NoVersion, 0, 0, "none")

ConcInit ==
    /\ \E seed \in {NothingWritten,
                     [db |-> SeedWrite.db, ulid |-> SeedWrite.ulid,
                      nuuid |-> SeedWrite.nuuid]} :
          /\ db = seed.db
          /\ ulid = seed.ulid
          /\ nuuid = seed.nuuid
          /\ latest = Greatest(NewlyCommitted(EmptyDB, seed.db))
    /\ now = ClockStart
    /\ srsp = NoSearch
    /\ txn = [p \in Procs |-> IdleTxn]
    /\ call = NoCall
    /\ schema = NoSchema

NoneStored(p) == \A q \in Procs \ {p} : txn[q].pc # "stored"

\* AdminWrite up to the return of selectForUpdate
BeginWrite(p) ==
    /\ txn[p].pc = "idle"
    /\ \E r \in ConcWrites(db) :
          txn' = [txn EXCEPT ![p] =
                    [IdleTxn EXCEPT
                        !.pc = "selected", !.op = "write", !.req = r,
                        !.sel = selectForUpdate(db,
                                    validateGRN(Caller, r.GRN).grn)]]
    /\ UNCHANGED <<db, now, ulid, nuuid, latest, srsp, call, schema>>

\* the callback returns before the entity_history insert is followed by
\* another statement: the identical-content return, the optimistic lock, a
\* failed insert
Refuse(p) ==
    /\ txn[p].pc = "selected"
    /\ txn[p].op = "write"
    /\ NoneStored(p)
    /\ \E part \in {AfterSelect(db, txn[p].sel, Caller, txn[p].req, now,
                                 ulid, nuuid, "entity")} :
          /\ part.err # "db error"
          /\ db' = WithTransaction(db, part)
          /\ ulid' = part.ulid
          /\ nuuid' = part.nuuid
          /\ txn' = [txn EXCEPT ![p].pc = "done",
                                ![p].status = FinalStatus(part),
                                ![p].err = part.err]
    /\ UNCHANGED <<now, latest, srsp, call, schema>>

\* the relations as the transaction sees them at its round trips after the
\* entity_history insert: with the history row alone, then (when the entity
\* statement succeeds and the summary has labels) with the entity row
\* written and the label rows still to insert
ViewsOf(part, indexed) ==
    IF indexed.err = "db error" THEN <<part.db, indexed.db>> ELSE <<part.db>>

\* the callback up to the entity_history insert: the transaction holds the
\* new history row, the others read the committed relations
Store(p) ==
    /\ txn[p].pc = "selected"
    /\ txn[p].op = "write"
    /\ NoneStored(p)
    /\ \E part \in {AfterSelect(db, txn[p].sel, Caller, txn[p].req, now,
                                 ulid, nuuid, "entity")},
          indexed \in {AfterSelect(db, txn[p].sel, Caller, txn[p].req, now,
                                    ulid, nuuid, "label")},
          full \in {AfterSelect(db, txn[p].sel, Caller, txn[p].req, now,
                                 ulid, nuuid, "none")} :
          /\ part.err = "db error"
          /\ db' = InFlight(db, part.db)
          /\ ulid' = full.ulid
          /\ nuuid' = full.nuuid
          /\ txn' = [txn EXCEPT ![p].pc = "stored",
                                ![p].views = ViewsOf(part, indexed),
                                ![p].tx = full]
    /\ UNCHANGED <<now, latest, srsp, call, schema>>

\* the entity statement and the DELETEs of the search rows
Proceed(p) ==
    /\ txn[p].pc = "stored"
    /\ Len(txn[p].views) > 1
    /\ db' = InFlight(db, txn[p].views[2])
    /\ txn' = [txn EXCEPT ![p].views = Tail(@)]
    /\ UNCHANGED <<now, ulid, nuuid, latest, srsp, call, schema>>

\* the rest of the callback and the end of WithTransaction
Commit(p) ==
    /\ txn[p].pc = "stored"
    /\ txn[p].op = "write"
    /\ Len(txn[p].views) = 1
    /\ db' = WithTransaction(db, txn[p].tx)
    /\ latest' = Greatest(latest \cup
                          NewlyCommitted(db, WithTransaction(db, txn[p].tx)))
    /\ txn' = [txn EXCEPT ![p].pc = "done",
                          ![p].status = FinalStatus(txn[p].tx),
                          ![p].err = txn[p].tx.err]
    /\ UNCHANGED <<now, ulid, nuuid, srsp, call, schema>>

\* Delete up to the return of Read
BeginDelete(p) ==
    /\ txn[p].pc = "idle"
    /\ txn' = [txn EXCEPT ![p] =
                  [IdleTxn EXCEPT
                      !.pc = "selected", !.op = "delete",
                      !.req = [GRN |-> FolderGRN],
                      !.sel = Read(db, Caller, FolderGRN)]]
    /\ UNCHANGED <<db, now, ulid, nuuid, latest, srsp, call, schema>>

\* doDelete up to its first statement
StoreDelete(p) ==
    /\ txn[p].pc = "selected"
    /\ txn[p].op = "delete"
    /\ NoneStored(p)
    /\ \E view \in {DeletedEntityRow(db, txn[p].sel.entity.Guid)} :
          /\ db' = InFlight(db, view)
          /\ txn' = [txn EXCEPT ![p].pc = "stored", ![p].views = <<view>>,
                                ![p].tx = doDelete(db, txn[p].sel.entity,
                                                   "none")]
    /\ UNCHANGED <<now, ulid, nuuid, latest, srsp, call, schema>>

\* the rest of doDelete and the end of WithTransaction
CommitDelete(p) ==
    /\ txn[p].pc = "stored"
    /\ txn[p].op = "delete"
    /\ db' = WithTransaction(db, txn[p].tx)
    /\ txn' = [txn EXCEPT ![p].pc = "done", ![p].err = txn[p].tx.err]
    /\ UNCHANGED <<now, ulid, nuuid, latest, srsp, call, schema>>

ConcNext ==
    \E p \in Procs :
        \/ BeginWrite(p)
        \/ Refuse(p)
        \/ Store(p)
        \/ Proceed(p)
        \/ Commit(p)
        \/ BeginDelete(p)
        \/ StoreDelete(p)
        \/ CommitDelete(p)

ConcSpec == ConcInit /\ [][ConcNext]_vars

-----------------------------------------------------------------------------
(* Search as a function of the tables.  A write of this server leaves guid *)
(* empty, so the tables it reaches hold one entity row at most; Search is  *)
(* a query, and it is applied here to every table the schema admits: rows  *)
(* of distinct guids and distinct (tenant_id, kind, uid), in two tenants,  *)
(* with label rows that carry the guid of their entity.                    *)

GuidNames == <<"g1", "g2", "g3", "g4", "g5">>
UidNames == <<"a", "b", "c", "d", "e">>

NoRow == <<>>
RowVariants ==
    {<<c.OrgID, k>> : c \in Callers, k \in RegisteredKinds} \cup {NoRow}

\* the i-th entity row: a folder at the root, a playlist in folder f1
TableRow(i, v) ==
    [guid |-> GuidNames[i], tenant_id |-> v[1], kind |-> v[2],
     uid |-> UidNames[i], version |-> <<ClockStart, i>>,
     folder |-> IF v[2] = StandardKindFolder THEN "" ELSE "f1"]

\* its label rows: env=prod, and for a folder team=a too
TableLabels(i, v) ==
    {[guid |-> GuidNames[i], label |-> p[1], value |-> p[2],
      parent_grn |-> NoParent] :
        p \in IF v[2] = StandardKindFolder
              THEN {<<"env", "prod">>, <<"team", "a">>}
              ELSE {<<"env", "prod">>}}

TableOf(f) ==
    [EmptyDB EXCEPT
        !.entity = {TableRow(i, f[i]) : i \in {j \in DOMAIN f : f[j] # NoRow}},
        !.entity_labels =
            SetToBag(UNION {TableLabels(i, f[i]) :
                              i \in {j \in DOMAIN f : f[j] # NoRow}})]

SearchTables == {TableOf(f) : f \in [1..MaxRows -> RowVariants]}

SearchRequests ==
    {[Kind |-> k, Folder |-> f, Labels |-> l, Limit |-> n,
      NextPageToken |-> t, Sort |-> <<>>] :
        k \in {{}, {StandardKindFolder}}, f \in {"", "f1"},
        l \in {{}, {<<"env", "prod">>}, {<<"env", "prod">>, <<"team", "a">>}},
        n \in {1, 2}, t \in {"", "g1"}}

SearchInit ==
    /\ db \in SearchTables
    /\ now = ClockStart
    /\ ulid = NoVersion
    /\ nuuid = 0
    /\ latest = {}
    /\ srsp = NoSearch
    /\ txn = NoTxns
    /\ call = NoCall
    /\ schema = NoSchema

\* Search applied to the tables by a caller
SearchStep ==
    \E user \in Callers, r \in SearchRequests :
        \E rsp \in Search(db, user, r) :
            /\ srsp' = [user |-> user, req |-> r, rsp |-> rsp]
            /\ UNCHANGED <<db, now, ulid, nuuid, latest, txn, call, schema>>

SearchNext == SearchStep

SearchSpec == SearchInit /\ [][SearchNext]_vars

-----------------------------------------------------------------------------
(* The keys of the API server.  A string is a TLA+ string: Len, SubSeq and *)
(* \o are those of Go strings over the characters used here.               *)

\* strings.Split(s, sep) for a separator of one character
RECURSIVE SplitFrom(_, _, _, _)
SplitFrom(s, sep, i, cur) ==
    IF i > Len(s) THEN <<cur>>
    ELSE IF SubSeq(s, i, i) = sep
    THEN <<cur>> \o SplitFrom(s, sep, i + 1, "")
    ELSE SplitFrom(s, sep, i + 1, cur \o SubSeq(s, i, i))

Split(s, sep) == SplitFrom(s, sep, 1, "")

Key(group, kind, namespace, name) ==
    [Group |-> group, Kind |-> kind, Namespace |-> namespace, Name |-> name]

ZeroKey == Key("", "", "", "")

\* ParseKey that takes the first four parts after the leading one, however
\* many parts there are
ParseKeyLenient(key) ==
    LET parts == Split(key, "/") \o <<"", "", "", "", "">>
    IN [err |-> "", key |-> Key(parts[2], parts[3], parts[4], parts[5])]

ParseKey(key) ==
    LET parts == Split(key, "/")
    IN IF Len(parts) # 5
       THEN [err |-> "invalid key (expecting 4 parts) " \o key,
             key |-> ZeroKey]
       ELSE [err |-> "", key |-> Key(parts[2], parts[3], parts[4], parts[5])]

\* Key.String
KeyString(k) ==
    "/" \o k.Group \o "/" \o k.Kind \o "/" \o k.Namespace \o "/" \o k.Name

IsEqual(k, other) ==
    /\ k.Group = other.Group
    /\ k.Kind = other.Kind
    /\ k.Namespace = other.Namespace
    /\ k.Name = other.Name

DigitChars == <<"0", "1", "2", "3", "4", "5", "6", "7", "8", "9">>

IsDigit(c) == \E d \in DOMAIN DigitChars : DigitChars[d] = c

DigitValue(c) == (CHOOSE d \in DOMAIN DigitChars : DigitChars[d] = c) - 1

RECURSIVE DigitsValue(_, _, _)
DigitsValue(s, i, acc) ==
    IF i > Len(s) THEN acc
    ELSE DigitsValue(s, i + 1, 10 * acc + DigitValue(SubSeq(s, i, i)))

AllDigits(s) == Len(s) > 0 /\ \A i \in 1..Len(s) : IsDigit(SubSeq(s, i, i))

\* strconv.ParseInt(s, 10, 64) on strings of a few digits: an optional sign,
\* then one digit or more
ParseInt(s) ==
    IF Len(s) > 0 /\ SubSeq(s, 1, 1) \in {"+", "-"}
    THEN IF AllDigits(SubSeq(s, 2, Len(s)))
         THEN [ok |-> TRUE,
               val |-> IF SubSeq(s, 1, 1) = "-"
                       THEN 0 - DigitsValue(s, 2, 0) ELSE DigitsValue(s, 2, 0)]
         ELSE [ok |-> FALSE, val |-> 0]
    ELSE IF AllDigits(s) THEN [ok |-> TRUE, val |-> DigitsValue(s, 1, 0)]
    ELSE [ok |-> FALSE, val |-> 0]

\* Key.TenantID
TenantID(k) ==
    IF k.Namespace = "default" THEN [err |-> "", id |-> 1]
    ELSE LET tid == Split(k.Namespace, "-")
         IN IF Len(tid) # 2 \/ ~(tid[1] = "org" \/ tid[1] = "tenant")
            THEN [err |-> "invalid namespace, expected org|tenant-${#}",
                  id |-> 0]
            ELSE IF ~ParseInt(tid[2]).ok
            THEN [err |-> "invalid namespace, expected number", id |-> 0]
            ELSE [err |-> "", id |-> ParseInt(tid[2]).val]

ZeroKeyGRN ==
    [TenantID |-> 0, ResourceGroup |-> "", ResourceKind |-> "",
     ResourceIdentifier |-> ""]

\* Key.ToGRN
ToGRN(k, kindName) ==
    IF TenantID(k).err # "" THEN [err |-> TenantID(k).err, grn |-> ZeroKeyGRN]
    ELSE [err |-> "",
          grn |-> [TenantID |-> TenantID(k).id, ResourceGroup |-> k.Group,
                   ResourceKind |-> kindName, ResourceIdentifier |-> k.Name]]

keyToGRN(key, kindName) ==
    IF ParseKey(key).err # ""
    THEN [err |-> ParseKey(key).err, grn |-> ZeroKeyGRN]
    ELSE ToGRN(ParseKey(key).key, kindName)

\* fmt.Sprintf("%d", n)
RECURSIVE Itoa(_)
Itoa(n) ==
    IF n < 0 THEN "-" \o Itoa(0 - n)
    ELSE IF n < 10 THEN DigitChars[n + 1]
    ELSE Itoa(n \div 10) \o DigitChars[(n % 10) + 1]

\* entityToResource: the namespace set on the resource
NamespaceOf(tenant) ==
    IF tenant # 1 THEN "tenant-" \o Itoa(tenant) ELSE "default"

\* the strings handed to ParseKey: every string of a and / up to MaxKeyLen
MaxKeyLen == 6

RECURSIVE StringsUpTo(_)
StringsUpTo(n) ==
    IF n = 0 THEN {""}
    ELSE StringsUpTo(n - 1)
         \cup {t \o c : t \in StringsUpTo(n - 1), c \in {"a", "/"}}

KeyStrings == StringsUpTo(MaxKeyLen)

\* the namespaces of the keys
Namespaces ==
    {"default", "org-1", "org-2", "tenant-1", "tenant-2", "tenant-12",
     "org-02", "org-+2", "", "org", "org-", "org-x", "stack-2", "org-2-3",
     "2", "Default", "tenant--2"}

\* the keys: group, kind and name empty, plain or holding a slash
KeyParts == {"", "g", "x/y"}

Keys ==
    {Key(g, k, ns, n) :
        g \in KeyParts, k \in KeyParts, ns \in Namespaces, n \in KeyParts}

KindName == "Playlist"

\* a key or a string in hand, no helper called yet
InputCall(op, k, str) ==
    [op |-> op, key |-> k, str |-> str, from |-> "", err |-> "",
     parsed |-> ZeroKey, grn |-> ZeroKeyGRN, ns |-> "", name |-> ""]

KeyInit ==
    /\ db = EmptyDB
    /\ now = ClockStart
    /\ ulid = NoVersion
    /\ nuuid = 0
    /\ latest = {}
    /\ srsp = NoSearch
    /\ txn = NoTxns
    /\ call \in {InputCall("key", k, "") : k \in Keys}
                \cup {InputCall("string", ZeroKey, t) : t \in KeyStrings}
    /\ schema = NoSchema

\* Key.String on the key in hand
StringStep ==
    /\ call.op = "key"
    /\ call' = [call EXCEPT !.op = "String", !.str = KeyString(call.key)]
    /\ UNCHANGED <<db, now, ulid, nuuid, latest, srsp, txn, schema>>

\* ParseKey on the string in hand
ParseStep ==
    /\ call.op \in {"string", "String"}
    /\ call' = [call EXCEPT !.op = "ParseKey", !.from = call.op,
                            !.err = ParseKey(call.str).err,
                            !.parsed = ParseKey(call.str).key]
    /\ UNCHANGED <<db, now, ulid, nuuid, latest, srsp, txn, schema>>

\* Key.ToGRN on the key in hand
ToGRNStep ==
    /\ call.op = "key"
    /\ call' = [call EXCEPT !.op = "ToGRN",
                            !.err = ToGRN(call.key, KindName).err,
                            !.grn = ToGRN(call.key, KindName).grn]
    /\ UNCHANGED <<db, now, ulid, nuuid, latest, srsp, txn, schema>>

\* entityToResource on the entity of the GRN in hand
ToResourceStep ==
    /\ call.op = "ToGRN"
    /\ call.err = ""
    /\ call' = [call EXCEPT !.op = "entityToResource",
                            !.ns = NamespaceOf(call.grn.TenantID),
                            !.name = call.grn.ResourceIdentifier]
    /\ UNCHANGED <<db, now, ulid, nuuid, latest, srsp, txn, schema>>

KeyNext == StringStep \/ ParseStep \/ ToGRNStep \/ ToResourceStep

KeySpec == KeyInit /\ [][KeyNext]_vars

-----------------------------------------------------------------------------
(* The API server's storage (pkg/services/grafana-apiserver/storage.go)     *)
(* over the entity store.  An API object is what resourceToEntity reads of  *)
(* it and entityToResource sets on it.                                      *)

MaxUpdateAttempts == 1

StatusReady == <<"ready">>

Object(kind, generateName, status) ==
    [Kind |-> kind, GenerateName |-> generateName, Status |-> status,
     Name |-> "", Namespace |-> "", UID |-> "", ResourceVersion |-> NoVersion]

\* the identity as the store keeps it
StoreGRN(g) ==
    [TenantID |-> g.TenantID, ResourceKind |-> g.ResourceKind,
     ResourceIdentifier |-> g.ResourceIdentifier]

\* what a call of the storage leaves: the error it returns, the object it
\* set, the relations and sources of the store, and the calls it made
StorageOut(err, obj, d, u, n, tries, writes) ==
    [err |-> err, obj |-> obj, db |-> d, ulid |-> u, nuuid |-> n,
     tries |-> tries, writes |-> writes]

\* entityToResource on the entity of a response
entityToResource(res, g, guid, version) ==
    [res EXCEPT !.Name = g.ResourceIdentifier,
                !.Namespace = NamespaceOf(g.TenantID),
                !.UID = guid,
                !.ResourceVersion = version]

\* entity.ToAdminWriteEntityRequest on the entity resourceToEntity built:
\* the identity and the status, neither body nor meta document
ToAdminWriteEntityRequest(g, status, previousVersion) ==
    [GRN |-> StoreGRN(g), Body |-> NoBody, Meta |-> NoMeta,
     Status |-> status, Folder |-> "", PreviousVersion |-> previousVersion,
     ClearHistory |-> FALSE, Comment |-> "", CreatedAt |-> 0,
     CreatedBy |-> NoUser, UpdatedAt |-> 0, UpdatedBy |-> NoUser]

\* Create: the key the object is stored under
CreateKey(key, obj, generated) ==
    IF obj.GenerateName = "" THEN [err |-> "", key |-> key]
    ELSE IF ParseKey(key).err # ""
    THEN [err |-> ParseKey(key).err, key |-> key]
    ELSE [err |-> "",
          key |-> KeyString([ParseKey(key).key EXCEPT !.Name = generated])]

\* Create once the store's Write returned
Created(obj, w) ==
    IF w.rsp.err # ""
    THEN StorageOut(w.rsp.err, obj, w.db, w.ulid, w.nuuid, 0, 1)
    ELSE IF w.rsp.status # "CREATED"
    THEN StorageOut("this was not a create operation", obj, w.db, w.ulid,
                    w.nuuid, 0, 1)
    ELSE StorageOut("", entityToResource(obj, w.rsp.grn, w.rsp.guid,
                                         w.rsp.version),
                    w.db, w.ulid, w.nuuid, 0, 1)

CreateAt(d, user, g, obj, t, u, n) ==
    IF g.err # "" THEN StorageOut(g.err, obj, d, u, n, 0, 0)
    ELSE Created(obj,
                 AdminWrite(d, user,
                            ToAdminWriteEntityRequest(g.grn, obj.Status,
                                                      NoVersion),
                            t, u, n, 0, "none"))

\* Storage.Create
StorageCreate(d, user, key, obj, generated, t, u, n) ==
    IF CreateKey(key, obj, generated).err # ""
    THEN StorageOut(CreateKey(key, obj, generated).err, obj, d, u, n, 0, 0)
    ELSE CreateAt(d, user,
                  keyToGRN(CreateKey(key, obj, generated).key, obj.Kind),
                  [obj EXCEPT !.GenerateName = ""], t, u, n)

\* the store's Read of a key, with body, meta document, status and summary
ReadKey(d, user, g) ==
    IF g.err # "" THEN [err |-> g.err, entity |-> ZeroEntity]
    ELSE ReadEntity(d, user,
                    ReadRequest(StoreGRN(g.grn), NoVersion, TRUE, TRUE, TRUE))

\* Get once the store's Read returned
GotRead(rd, ignoreNotFound, objPtr) ==
    IF rd.err # "" THEN [err |-> rd.err, obj |-> objPtr]
    ELSE IF rd.entity.GRN = NoGRN
    THEN [err |-> IF ignoreNotFound THEN "" ELSE "NotFound", obj |-> objPtr]
    ELSE [err |-> "",
          obj |-> entityToResource(objPtr, rd.entity.GRN, rd.entity.Guid,
                                   rd.entity.Version)]

\* Storage.Get
StorageGet(d, user, key, ignoreNotFound, objPtr) ==
    GotRead(ReadKey(d, user, keyToGRN(key, objPtr.Kind)), ignoreNotFound,
            objPtr)

\* the outcomes of the caller's tryUpdate: the updated object, a Forbidden
\* status error, another error
TryUpdate(err, status) == [err |-> err, status |-> status]

\* guaranteedUpdate once the store's Write returned
Updated(c, s, w) ==
    IF w.rsp.err # ""
    THEN StorageOut(w.rsp.err, s.obj, w.db, w.ulid, w.nuuid, s.tries + 1,
                    s.writes + 1)
    ELSE IF w.rsp.status = "UNCHANGED"
    THEN StorageOut("", s.obj, w.db, w.ulid, w.nuuid, s.tries + 1,
                    s.writes + 1)
    ELSE StorageOut("", entityToResource(s.obj, w.rsp.grn, w.rsp.guid,
                                         w.rsp.version),
                    w.db, w.ulid, w.nuuid, s.tries + 1, s.writes + 1)

\* guaranteedUpdate once tryUpdate returned
TriedUpdate(c, s, g) ==
    IF c.update.err = "Forbidden"
    THEN StorageOut("Forbidden", s.obj, s.db, s.ulid, s.nuuid, s.tries + 1,
                    s.writes)
    ELSE IF c.update.err # ""
    THEN StorageOut("could not successfully update object", s.obj, s.db,
                    s.ulid, s.nuuid, s.tries + 1, s.writes)
    ELSE IF g.err # ""
    THEN StorageOut(g.err, s.obj, s.db, s.ulid, s.nuuid, s.tries + 1,
                    s.writes)
    ELSE Updated(c, s,
                 AdminWrite(s.db, c.user,
                            ToAdminWriteEntityRequest(
                                [g.grn EXCEPT !.ResourceKind = c.kind],
                                c.update.status, c.previousVersion),
                            c.now, s.ulid, s.nuuid, 0, c.fail))

\* Storage.guaranteedUpdate: Get with storage.GetOptions{}, tryUpdate,
\* the store's Write
guaranteedUpdate(c, s) ==
    LET got == StorageGet(s.db, c.user, c.key, FALSE, s.obj)
    IN IF got.err # ""
       THEN StorageOut(got.err, s.obj, s.db, s.ulid, s.nuuid, s.tries,
                       s.writes)
       ELSE TriedUpdate(c, [s EXCEPT !.obj = got.obj, !.err = ""],
                        keyToGRN(c.key, c.kind))

\* the loop of GuaranteedUpdate goes round once more
AttemptingTwice(attempt) == attempt <= MaxUpdateAttempts + 1

Attempting(attempt) == attempt <= MaxUpdateAttempts

RECURSIVE UpdateLoop(_, _, _)
UpdateLoop(c, s, attempt) ==
    IF ~Attempting(attempt) THEN s
    ELSE LET out == guaranteedUpdate(c, s)
         IN IF out.err = "" THEN out ELSE UpdateLoop(c, out, attempt + 1)

\* a call of GuaranteedUpdate: the caller, the key, the kind of the
\* destination, the flag, the precondition, what tryUpdate returns, the
\* clock and the statement of the store's transaction that fails
UpdateCall(user, key, kind, ignoreNotFound, pv, update, t, fail) ==
    [user |-> user, key |-> key, kind |-> kind,
     ignoreNotFound |-> ignoreNotFound, previousVersion |-> pv,
     update |-> update, now |-> t, fail |-> fail]

\* Storage.GuaranteedUpdate
GuaranteedUpdate(c, d, u, n) ==
    UpdateLoop(c, StorageOut("", Object(c.kind, "", NoStatus), d, u, n, 0, 0),
               1)

\* the key of the folder the model writes, and a key nothing is stored under
FolderKey == KeyString(Key("g", "folders", "default", "a"))
MissingKey == KeyString(Key("g", "folders", "default", "zz"))

\* the identity a key names for a kind, as the store keeps it
KeyGRN(key, kind) == StoreGRN(keyToGRN(key, kind).grn)

\* the objects handed to Create and returned by tryUpdate
StorageStatuses == {NoStatus, StatusReady}
CreateObjects ==
    {Object(StandardKindFolder, gn, st) :
        gn \in {"", "gen-"}, st \in StorageStatuses}

\* what the caller's tryUpdate may return
Updates ==
    {TryUpdate("", st) : st \in StorageStatuses}
        \cup {TryUpdate("Forbidden", NoStatus), TryUpdate("failed", NoStatus)}

StorageKeys == {FolderKey, MissingKey}

\* Storage.Delete: the request handed to the store's Delete
StorageDeleteRequest(key, kind, resourceVersion) ==
    [GRN |-> KeyGRN(key, kind), PreviousVersion |-> resourceVersion]

-----------------------------------------------------------------------------
(* The schema migrator (pkg/services/store/entity/migrations), run once at  *)
(* startup.  The schema is the set of tables that exist and the rows of     *)
(* the migration log table; the migrator keeps a copy of the log in memory. *)

LogTable == "entity_migration_log"

\* the tables of the entity store other than its migration log
OwnedTables == {"entity", "entity_history", "entity_labels", "entity_ref",
                "entity_nested", "entity_folder"}

\* the identifier initEntityTables returns, and the migrations it registers
Marker == "Initialize entity tables"
CreateLog == "create entity_migration_log table"
CreateTables == "create entity tables"
Migrations == {CreateLog, Marker, CreateTables}

\* an identifier recorded by an earlier version of the schema
OldMarker == "Initialize entity tables (old)"

Prod == "production"
Envs == {"development", "test", Prod}

\* the calls of MigrateEntityStore that may return an error
MigrateFailPoints == {"none", "IsTableExist", "GetMigrationLog", "DROP",
                      "Start"}

\* the features, the environment and the schema a process may start with:
\* a log table that does not exist has no rows
StartSchemas ==
    {s \in [pc : {"start"}, flag : BOOLEAN, env : Envs,
            fail : MigrateFailPoints,
            tables : SUBSET (OwnedTables \cup {LogTable}),
            log : SUBSET {Marker, OldMarker, CreateTables}, mem : {{}},
            dropped : {{}}, removed : {{}}, ran : {{}}, txs : {0},
            err : {""}] : LogTable \in s.tables \/ s.log = {}}

\* MigrateEntityStore returns at once: the feature is off, or the
\* environment is production
SkippedFlagOnly(s) == ~s.flag

Skipped(s) == ~s.flag \/ s.env = Prod

\* the call returns err
Failed(s, err) == [s EXCEPT !.pc = "done", !.err = err]

\* the tables the reset transaction drops
ResetTables == {LogTable}

\* the log lacks the marker and is not empty
ResetNeeded(log) == Marker \notin log /\ log # {}

\* the reset transaction and the removal from the in-memory log
DropAndForget(s) ==
    IF s.fail = "DROP"
    THEN Failed([s EXCEPT !.mem = s.log], "drop failed")
    ELSE [s EXCEPT !.tables = @ \ ResetTables,
                   !.log = {},
                   !.mem = {},
                   !.dropped = s.tables \cap ResetTables,
                   !.removed = s.log,
                   !.txs = @ + 1]

\* the development reset
Reset(s) ==
    IF s.fail = "IsTableExist" THEN Failed(s, "IsTableExist failed")
    ELSE IF LogTable \notin s.tables THEN s
    ELSE IF s.fail = "GetMigrationLog" THEN Failed(s, "log failed")
    ELSE IF ResetNeeded(s.log) THEN DropAndForget(s)
    ELSE [s EXCEPT !.mem = s.log]

\* mg.Start: every registered migration the log does not hold is executed
\* once and recorded
Start(s) ==
    IF s.err # "" THEN s
    ELSE IF s.fail = "Start" THEN Failed(s, "migration failed")
    ELSE [s EXCEPT !.pc = "done",
                   !.ran = Migrations \ s.mem,
                   !.tables = @ \cup {LogTable} \cup
                       (IF CreateTables \in s.mem THEN {} ELSE OwnedTables),
                   !.log = @ \cup Migrations,
                   !.mem = @ \cup Migrations]

MigrateEntityStore(s) ==
    IF Skipped(s) THEN [s EXCEPT !.pc = "done"] ELSE Start(Reset(s))

MigInit ==
    /\ db = EmptyDB
    /\ now = ClockStart
    /\ ulid = NoVersion
    /\ nuuid = 0
    /\ latest = {}
    /\ srsp = NoSearch
    /\ txn = NoTxns
    /\ call = NoCall
    /\ schema \in StartSchemas

\* the one run of the migrator at process start
Migrate ==
    /\ schema.pc = "start"
    /\ schema' = MigrateEntityStore(schema)
    /\ UNCHANGED <<db, now, ulid, nuuid, latest, srsp, txn, call>>

MigNext == Migrate

MigSpec == MigInit /\ [][MigNext]_vars

-----------------------------------------------------------------------------
(* Properties.  A property that speaks of "a Write" is stated over every    *)
(* reachable committed state and every request it examines there: the      *)
(* handler is applied to the state and its response and the relations it   *)
(* leaves are examined.                                                    *)

\* the row stored for the identity a request names
Stored(d, r) == EntityRows(d, validateGRN(Caller, r.GRN).grn)

\* the etag AdminWrite computes for a request
ETagOf(r) == createContentsHash(prepare(r).body, r.Meta, r.Status)

\* the stored content is the content of the request
SameAsStored(d, r) == \E e \in Stored(d, r) : e.etag = ETagOf(r)

\* the request carries a previousVersion that is not the stored version
StaleVersion(d, r) ==
    /\ r.PreviousVersion # NoVersion
    /\ \A e \in Stored(d, r) : e.version # r.PreviousVersion

\* the result of the request in the current state, no statement failing
Result(r) == AdminWrite(db, Caller, r, now, ulid, nuuid, 0, "none")

Succeeded(out) == out.rsp.err = "" /\ out.rsp.status \in {"CREATED", "UPDATED"}

\* C1: a Write that follows a successful Write to the same identity with the
\* identical (body, meta, status) and no clearHistory returns UNCHANGED with
\* the version of the first Write and leaves every relation as it was: no
\* history row is added, the entity row (updated_at included) and the derived
\* index rows are unchanged.
C1_IdenticalRewriteUnchanged ==
    \A r \in WriteRequests(db) :
        \A first \in {Result(r)} :
            Succeeded(first) =>
                \A pv \in PreviousVersions(first.db), t \in {now, now + 1} :
                    \A again \in {AdminWrite(first.db, Caller,
                                     [r EXCEPT !.PreviousVersion = pv,
                                               !.ClearHistory = FALSE],
                                     t, first.ulid, first.nuuid, 0, "none")} :
                        /\ again.rsp.err = ""
                        /\ again.rsp.status = "UNCHANGED"
                        /\ again.rsp.version = first.rsp.version
                        /\ again.db = first.db

\* an entity is stored, and its identical rewrite is answered UNCHANGED with
\* the stored version
C1_Witness ==
    \E r \in WriteRequests(db) :
        /\ SameAsStored(db, r)
        /\ ~r.ClearHistory
        /\ Result(r).rsp.status = "UNCHANGED"
        /\ \E e \in Stored(db, r) : Result(r).rsp.version = e.version

\* C2: a Write to an existing entity with different content and a non-empty
\* previousVersion that is not the stored version fails with "optimistic lock
\* failed" and leaves all seven relations exactly as they were.
C2_StaleVersionRejected ==
    \A r \in WriteRequests(db) :
        (Stored(db, r) # {} /\ ~SameAsStored(db, r) /\ StaleVersion(db, r)) =>
            \A out \in {Result(r)} :
                /\ out.rsp.err = "optimistic lock failed"
                /\ out.db = db

\* an entity is stored, and a clearHistory write of other content carrying a
\* version of the past is refused by the optimistic lock, after doDelete
C2_Witness ==
    \E r \in WriteRequests(db) :
        /\ Stored(db, r) # {}
        /\ ~SameAsStored(db, r)
        /\ StaleVersion(db, r)
        /\ r.ClearHistory
        /\ Result(r).rsp.err = "optimistic lock failed"
        /\ Result(r).rsp.status = "ERROR"

\* C3 as stated: every Write whose non-empty previousVersion is not the stored
\* version fails with "optimistic lock failed" and returns none of CREATED,
\* UPDATED, UNCHANGED -- identical content and a missing entity included.
C3_EveryStaleWriteFails ==
    \A r \in WriteRequests(db) :
        StaleVersion(db, r) =>
            \A out \in {Result(r)} :
                /\ out.rsp.err = "optimistic lock failed"
                /\ out.rsp.status \notin {"CREATED", "UPDATED", "UNCHANGED"}

\* C3: a Write whose non-empty previousVersion is not the stored version fails
\* with "optimistic lock failed" and status ERROR when no entity exists, when
\* the content differs, and when clearHistory is set; a Write of the
\* identical content without clearHistory returns UNCHANGED before
\* previousVersion is looked at.
C3_StaleWriteFailsUnlessIdentical ==
    \A r \in WriteRequests(db) :
        StaleVersion(db, r) =>
            \A out \in {Result(r)} :
                IF SameAsStored(db, r) /\ ~r.ClearHistory
                THEN out.rsp.err = "" /\ out.rsp.status = "UNCHANGED"
                ELSE /\ out.rsp.err = "optimistic lock failed"
                     /\ out.rsp.status = "ERROR"

\* the entity of the identity was deleted, and a write carrying a
\* previousVersion is refused by the optimistic lock
C3_Witness ==
    \E r \in WriteRequests(db) :
        /\ Stored(db, r) = {}
        /\ latest # {}
        /\ StaleVersion(db, r)
        /\ Result(r).rsp.err = "optimistic lock failed"
        /\ Result(r).rsp.status = "ERROR"

\* C4: after any sequence of Writes and Deletes, the version of every entity
\* row is the maximum version among the entity_history rows with its guid.
C4_VersionIsLatestOfHistory ==
    \A e \in db.entity :
        /\ \E h \in db.entity_history :
              h.guid = e.guid /\ h.version = e.version
        /\ \A h \in db.entity_history :
              h.guid = e.guid => ~VersionLess(e.version, h.version)

\* an entity whose history holds an older version as well
C4_Witness ==
    \E e \in db.entity :
        \E h \in db.entity_history :
            h.guid = e.guid /\ VersionLess(h.version, e.version)

\* C5: in every committed state every entity row has an entity_history row
\* with its guid and version, carrying the same size, etag, updated_at and
\* updated_by.
C5_CurrentRowMatchesHistory ==
    \A e \in db.entity :
        \E h \in db.entity_history :
            /\ h.guid = e.guid
            /\ h.version = e.version
            /\ h.size = e.size
            /\ h.etag = e.etag
            /\ h.updated_at = e.updated_at
            /\ h.updated_by = e.updated_by

\* an entity updated after the clock advanced, its history two rows long
C5_Witness ==
    \E e \in db.entity :
        /\ e.updated_at > e.created_at
        /\ Cardinality({h \in db.entity_history : h.guid = e.guid}) >= 2

LabelRowsOf(d, g) ==
    {x \in DOMAIN d.entity_labels : Matches(x, "grn", GRNString(g))}

\* C7: after any successful Write the entity_labels rows of the written
\* entity are exactly the (label, value) pairs of the summary of the written
\* content, each once.
C7_LabelRowsAreTheSummary ==
    \A r \in WriteRequests(db) :
        \A out \in {Result(r)} :
            Succeeded(out) =>
                /\ {<<x.label, x.value>> : x \in LabelRowsOf(out.db, out.rsp.grn)}
                     = SummaryModel(prepare(r), r).Labels
                /\ \A x \in LabelRowsOf(out.db, out.rsp.grn) :
                      out.db.entity_labels[x] = 1

\* the rows of a derived relation that belong to the identity: its own rows
\* (grn) and the rows of its nested children (parent_grn), with their counts
DerivedRowsOf(bag, g) ==
    [x \in {y \in DOMAIN bag : \/ Matches(y, "grn", GRNString(g))
                               \/ Matches(y, "parent_grn", GRNString(g))}
        |-> bag[x]]

\* the rows the summary of a request emits
EmittedRows(r, g) ==
    SearchRows(GRNString(g), SummaryModel(prepare(r), r), g, FALSE, r.Folder)

\* C8: after any successful update the entity_ref rows and the entity_nested
\* rows of the entity are exactly those the summary of the new content emits:
\* no row of the previous version remains and no nested child has more than
\* one row.
C8_RefAndNestedRowsAreTheSummary ==
    \A r \in WriteRequests(db) :
        \A out \in {Result(r)} :
            (out.rsp.err = "" /\ out.rsp.status = "UPDATED") =>
                /\ DerivedRowsOf(out.db.entity_ref, out.rsp.grn)
                     = EmittedRows(r, out.rsp.grn).refs
                /\ DerivedRowsOf(out.db.entity_nested, out.rsp.grn)
                     = EmittedRows(r, out.rsp.grn).nested
                /\ \A x \in DOMAIN out.db.entity_nested :
                      out.db.entity_nested[x] = 1

\* every row of the relation that the identity owns: by guid, by grn, or as
\* the parent of a nested row
OwnedRows(rows, guid, g) ==
    {x \in rows : \/ Matches(x, "guid", guid)
                  \/ Matches(x, "grn", GRNString(g))
                  \/ Matches(x, "parent_grn", GRNString(g))}

\* C9: after a successful Delete of an existing entity a Read of the identity
\* returns the empty entity, and entity, entity_history, entity_labels,
\* entity_ref and entity_nested hold no row of the deleted entity.
C9_DeleteRemovesEveryRow ==
    \A r \in DeleteRequests(db) :
        \A e \in Stored(db, r) :
            \A out \in {DeleteEntity(db, Caller, r, "none")} :
                (out.rsp.err = "" /\ out.rsp.ok) =>
                    \A g \in {validateGRN(Caller, r.GRN).grn} :
                        /\ Read(out.db, Caller, r.GRN).entity = EmptyEntity
                        /\ EntityRows(out.db, g) = {}
                        /\ OwnedRows(out.db.entity_history, e.guid, g) = {}
                        /\ OwnedRows(DOMAIN out.db.entity_labels, e.guid, g) = {}
                        /\ OwnedRows(DOMAIN out.db.entity_ref, e.guid, g) = {}
                        /\ OwnedRows(DOMAIN out.db.entity_nested, e.guid, g) = {}

\* C10: a Write in which a statement of the transaction fails (or the context
\* is cancelled) returns status ERROR with an error, and every relation is
\* exactly what it was before the Write.
C10_FailedWriteChangesNothing ==
    \A r \in FailingWrites(db), fail \in FailPoints :
        \A out \in {AdminWrite(db, Caller, r, now, ulid, nuuid, 0, fail)} :
            out.rsp.err # "" =>
                /\ out.rsp.status = "ERROR"
                /\ out.db = db

\* an entity is stored, and an update of it that fails at the insert of a
\* nested row, after the history and entity statements, is answered ERROR
C10_Witness ==
    \E r \in FailingWrites(db) :
        \E out \in {AdminWrite(db, Caller, r, now, ulid, nuuid, 0, "nested")} :
            /\ Stored(db, r) # {}
            /\ ~r.ClearHistory
            /\ out.rsp.status = "ERROR"
            /\ out.rsp.err = "db error"
            /\ out.rsp.version # NoVersion

\* the callers that GetUserIDString renders as the stored user string
WrittenBy(userString) == {c \in Callers : GetUserIDString(c) = userString}

\* C14: a Write whose GRN names a non-zero tenant other than the caller's is
\* rejected with an error before the transaction is opened (no response, no
\* ULID or uuid drawn) and changes no relation; and the tenant_id of every
\* entity row is the tenant of the caller that wrote it.
C14_CrossTenantWriteRejected ==
    /\ \A user \in Callers :
          \A r \in CrossTenantWrites(user) :
              \A out \in {AdminWrite(db, user, r, now, ulid, nuuid, 0,
                                     "none")} :
                  /\ out.rsp.err = "tenant ID does not match userID"
                  /\ out.rsp.status = NilStatus
                  /\ out.db = db
                  /\ out.ulid = ulid
                  /\ out.nuuid = nuuid
    /\ \A e \in db.entity :
          /\ WrittenBy(e.updated_by) # {}
          /\ \A c \in WrittenBy(e.updated_by) : e.tenant_id = c.OrgID

\* an entity of the other tenant is stored, and the write of the caller that
\* names it with its tenant is rejected
C14_Witness ==
    \E e \in db.entity :
        /\ e.tenant_id = OtherCaller.OrgID
        /\ \E r \in CrossTenantWrites(Caller) :
              /\ r.GRN.TenantID = e.tenant_id
              /\ r.GRN.ResourceKind = e.kind
              /\ r.GRN.ResourceIdentifier = e.uid
              /\ AdminWrite(db, Caller, r, now, ulid, nuuid, 0, "none").rsp.err
                    = "tenant ID does not match userID"

\* the identity of g exists in the tenant of `other` and not in the reader's
OnlyInOtherTenant(d, reader, other, g) ==
    \A tenants \in {{e.tenant_id : e \in {x \in d.entity :
                                              /\ x.kind = g.ResourceKind
                                              /\ x.uid = g.ResourceIdentifier}}} :
        other.OrgID \in tenants /\ reader.OrgID \notin tenants

C16_SearchIsTenantScoped ==
    srsp # NoSearch =>
        /\ \A i \in DOMAIN srsp.rsp.results :
              srsp.rsp.results[i].GRN.TenantID = srsp.user.OrgID
        /\ srsp.rsp.token # "" =>
              \E e \in db.entity :
                  e.guid = srsp.rsp.token /\ e.tenant_id = srsp.user.OrgID

\* a Search with a label filter returned an entity while an entity of another
\* tenant satisfies the same kind, folder and label filters
C16_Witness ==
    /\ srsp # NoSearch
    /\ srsp.req.Labels # {}
    /\ Len(srsp.rsp.results) >= 1
    /\ \E e \in SearchWhereAnyTenant(db, srsp.user, srsp.req) :
          e.tenant_id # srsp.user.OrgID

\* the label maps searched for
LabelMaps ==
    {{<<"env", "prod">>}, {<<"env", "dev">>}, {<<"env", "dev">>, <<"team", "a">>},
     {<<"env", "prod">>, <<"team", "a">>}}

LabelSearch(l) ==
    [Kind |-> {}, Folder |-> "", Labels |-> l, Limit |-> 2,
     NextPageToken |-> "", Sort |-> <<>>]

\* C17: a Search with a non-empty label map (and a limit that does not
\* truncate) returns exactly the entities of the caller's tenant whose current
\* label set contains every (label, value) pair of the map.
C17_LabelSearchIsConjunctive ==
    \A user \in Callers, l \in LabelMaps :
        \A rsp \in Search(db, user, LabelSearch(l)) :
            /\ rsp.err = ""
            /\ {rsp.results[i].GRN : i \in DOMAIN rsp.results}
                 = {SearchResult(e).GRN :
                      e \in {x \in db.entity : /\ x.tenant_id = user.OrgID
                                                /\ l \subseteq x.labels}}

GuidIndex(g) == CHOOSE i \in DOMAIN GuidNames : GuidNames[i] = g
GuidLess(a, b) == GuidIndex(a) < GuidIndex(b)

\* C19: a Search that supplies a non-empty page token succeeds and returns
\* only entities whose guid is strictly greater than the token, in
\* guid-ascending order.
C19_PagedSearchSucceeds ==
    (srsp # NoSearch /\ srsp.req.NextPageToken # "") =>
        /\ srsp.rsp.err = ""
        /\ \A i \in DOMAIN srsp.rsp.results :
              /\ GuidLess(srsp.req.NextPageToken, srsp.rsp.results[i].Guid)
              /\ \A j \in DOMAIN srsp.rsp.results :
                    i < j => GuidLess(srsp.rsp.results[i].Guid,
                                      srsp.rsp.results[j].Guid)

\* the versions a History of the identity returns, in one of its responses
HistoryVersions(rsp) == {rsp.versions[i].Version : i \in DOMAIN rsp.versions}

\* C20: for an identity whose entity was written k times with pairwise
\* distinct content and no clearHistory, History returns exactly k version
\* descriptors in decreasing updated_at order, and their versions are the
\* versions those Writes returned -- the versions of the entity_history rows
\* of the entity.
C20_HistoryListsEveryVersion ==
    \A g \in ReqGRNs :
        \A e \in EntityRows(db, validateGRN(Caller, g).grn) :
            \A rsp \in History(db, Caller, [GRN |-> g, NextPageToken |-> ""]) :
                \A written \in {{h.version : h \in {x \in db.entity_history :
                                                       x.guid = e.guid}}} :
                    /\ rsp.err = ""
                    /\ Len(rsp.versions) = Cardinality(written)
                    /\ HistoryVersions(rsp) = written
                    /\ \A i \in DOMAIN rsp.versions, j \in DOMAIN rsp.versions :
                          i < j => rsp.versions[i].UpdatedAt
                                     >= rsp.versions[j].UpdatedAt


\* the concurrent Writes that committed
Committed(p) ==
    /\ txn[p].pc = "done"
    /\ txn[p].op = "write"
    /\ txn[p].err = ""
    /\ txn[p].status \in {"CREATED", "UPDATED"}

\* the hash of the content a concurrent Write carries
ContentOf(t) ==
    createContentsHash(prepare(t.req).body, t.req.Meta, t.req.Status)

\* two concurrent Writes of different content, neither the stored content,
\* that read the same stored version of the same identity and both carry it
\* as previousVersion
SameVersionRace(p, q) ==
    /\ p # q
    /\ txn[p].op = "write" /\ txn[q].op = "write"
    /\ ContentOf(txn[p]) # ContentOf(txn[q])
    /\ ContentOf(txn[p]) # txn[p].sel.info.ETag
    /\ ContentOf(txn[q]) # txn[q].sel.info.ETag
    /\ txn[p].pc = "done" /\ txn[q].pc = "done"
    /\ txn[p].req.GRN = txn[q].req.GRN
    /\ txn[p].sel.found /\ txn[q].sel.found
    /\ txn[p].sel.info.Version = txn[q].sel.info.Version
    /\ txn[p].req.PreviousVersion = txn[p].sel.info.Version
    /\ txn[q].req.PreviousVersion = txn[q].sel.info.Version

\* C11: of two concurrent Writes with different content that both carry the
\* same previousVersion equal to the stored version they both read, at most
\* one commits and the other fails with "optimistic lock failed".
C11_ConcurrentWritesAreSerialised ==
    \A p, q \in Procs :
        SameVersionRace(p, q) /\ Committed(p) =>
            /\ ~Committed(q)
            /\ txn[q].err = "optimistic lock failed"

LabelsInserted(d) ==
    \A e \in d.entity :
        \A l \in e.labels :
            \E x \in DOMAIN d.entity_labels :
                /\ Matches(x, "grn", <<e.tenant_id, e.kind, e.uid>>)
                /\ x.label = l[1]

\* no history row is of a version newer than the one its entity row carries
HistoryCarried(d) ==
    \A h \in d.entity_history :
        \A e \in d.entity :
            e.guid = h.guid => ~(e.version[1] < h.version[1]
                                 \/ (e.version[1] = h.version[1]
                                     /\ e.version[2] < h.version[2]))

\* no history row is left without its entity row
HistoryOwned(d) ==
    \A h \in d.entity_history : \E e \in d.entity : e.guid = h.guid

SettledState(d) == LabelsInserted(d) /\ HistoryCarried(d) /\ HistoryOwned(d)

\* C13: the relations a Read or Search reads while a Write or Delete of the
\* same entity is in flight are committed state: no entity row whose label
\* rows are not yet inserted, no history row of a version the entity row does
\* not yet carry, no history row whose entity row is removed.
C13_ReadersSeeCommittedState == SettledState(db)


\* the Read of the identity of a request, with the body
BodyRead(r) == ReadRequest(r.GRN, NoVersion, TRUE, FALSE, FALSE)

\* C21: after a successful Write with status CREATED or UPDATED, a Read of
\* the identity with withBody returns the body that Write stored, the
\* caller's tenant, the folder of the Write and the version the Write
\* returned; a Read of an identity with no entity row returns the empty
\* entity and no error.
C21_WriteReadRoundTrip ==
    /\ \A r \in WriteRequests(db) :
          \A out \in {Result(r)} :
             Succeeded(out) =>
                \A rd \in {ReadEntity(out.db, Caller, BodyRead(r))} :
                    /\ rd.err = ""
                    /\ rd.entity.Body = prepare(r).body
                    /\ rd.entity.GRN.TenantID = Caller.OrgID
                    /\ rd.entity.Folder = r.Folder
                    /\ rd.entity.Version = out.rsp.version
                    /\ rd.entity.Version # NoVersion
    /\ \A g \in ReqGRNs :
          EntityRows(db, validateGRN(Caller, g).grn) = {} =>
             \A f \in BOOLEAN :
                ReadEntity(db, Caller, ReadRequest(g, NoVersion, f, f, f))
                   = [err |-> "", entity |-> ZeroEntity]

\* an entity is stored in a folder, with a body the builder cleaned, and an
\* update of it succeeds; the other identity has no row
C21_Witness ==
    /\ \E e \in db.entity : e.folder = "f1" /\ e.body # NoBody
    /\ \E r \in WriteRequests(db) :
          /\ Result(r).rsp.status = "UPDATED"
          /\ Result(r).rsp.err = ""
          /\ r.Body # prepare(r).body
    /\ EntityRows(db, validateGRN(Caller, PlaylistGRN).grn) = {}

\* the Read of the identity of a request at a version, with the body
VersionRead(g, version) == ReadRequest(g, version, TRUE, FALSE, FALSE)

\* the history rows of the entity the identity names
HistoryOf(d, g) ==
    {h \in d.entity_history :
        \E e \in EntityRows(d, validateGRN(Caller, g).grn) : e.guid = h.guid}

\* C22: after successful Writes to one identity, a Read at the version v
\* that any one of them returned gives the body that Write stored, with
\* version v; a Read at a version never committed for the identity gives
\* the empty entity.
C22_ReadAtVersion ==
    \A r \in WriteRequests(db) :
        \A out \in {Result(r)} :
            Succeeded(out) =>
                /\ \A h \in HistoryOf(out.db, r.GRN) :
                      \A rd \in {ReadEntity(out.db, Caller,
                                             VersionRead(r.GRN, h.version))} :
                          /\ rd.err = ""
                          /\ rd.entity.Body = h.body
                          /\ rd.entity.Version = h.version
                /\ ReadEntity(out.db, Caller, VersionRead(r.GRN, ZeroUlid))
                      = [err |-> "", entity |-> ZeroEntity]

\* entity_history holds one row for the entity, of the version the Write
\* returned
OneHistoryRow(out, r) ==
    /\ Cardinality(HistoryOf(out.db, r.GRN)) = 1
    /\ \A h \in HistoryOf(out.db, r.GRN) : h.version = out.rsp.version

\* the derived rows of the identity are those the new content emits
OnlyNewDerivedRows(out, r) ==
    /\ DerivedRowsOf(out.db.entity_labels, out.rsp.grn)
         = EmittedRows(r, out.rsp.grn).labels
    /\ DerivedRowsOf(out.db.entity_ref, out.rsp.grn)
         = EmittedRows(r, out.rsp.grn).refs
    /\ DerivedRowsOf(out.db.entity_nested, out.rsp.grn)
         = EmittedRows(r, out.rsp.grn).nested

\* the new row keeps the creation stamps of the row `old` it replaces unless
\* the request supplies both
CreationKept(out, r, old) ==
    (r.CreatedAt < MinTimestamp \/ r.CreatedBy = NoUser) =>
        \A e \in Stored(out.db, r) :
            /\ e.created_at = old.created_at
            /\ e.created_by = old.created_by

\* C23: a successful Write with clearHistory to an existing entity removes
\* the previous entity row, its history and its derived rows: afterwards
\* entity_history holds exactly one row for the entity, the new version, the
\* derived rows are those of the new content, and the new entity row keeps
\* created_at and created_by of the replaced one unless the request supplies
\* both.
C23_ClearHistoryReplaces ==
    \A r \in WriteRequests(db) :
        \A old \in Stored(db, r) :
            \A out \in {Result(r)} :
                (r.ClearHistory /\ Succeeded(out)) =>
                    /\ Cardinality(Stored(out.db, r)) = 1
                    /\ OneHistoryRow(out, r)
                    /\ OnlyNewDerivedRows(out, r)
                    /\ CreationKept(out, r, old)

\* the status of a Write that returned no error names the transition taken
StatusNamesTransition(d, r, out) ==
    /\ out.rsp.status \in {"CREATED", "UPDATED", "UNCHANGED"}
    /\ out.rsp.status = "CREATED" <=> (Stored(d, r) = {} \/ r.ClearHistory)
    /\ out.rsp.status = "UPDATED" <=>
          (Stored(d, r) # {} /\ ~r.ClearHistory /\ ~SameAsStored(d, r))
    /\ out.rsp.status = "UNCHANGED" <=>
          (Stored(d, r) # {} /\ ~r.ClearHistory /\ SameAsStored(d, r))

\* every Write examined: the ones that reach the transaction, with every
\* statement that can fail, and the ones refused before it
ExaminedOutcomes ==
    {AdminWrite(db, Caller, r, now, ulid, nuuid, 0, "none") :
        r \in WriteRequests(db) \cup RejectedWrites
                \cup CrossTenantWrites(Caller)}
    \cup {AdminWrite(db, Caller, r, now, ulid, nuuid, 0, fail) :
             r \in FailingWrites(db), fail \in FailPoints}

\* C24 as stated: the status of a successful Write names the transition
\* taken, and a Write returns an error exactly when its status is ERROR.
C24_StatusReflectsTransition ==
    /\ \A r \in WriteRequests(db) :
          \A out \in {Result(r)} :
             out.rsp.err = "" => StatusNamesTransition(db, r, out)
    /\ \A out \in ExaminedOutcomes :
          out.rsp.err # "" <=> out.rsp.status = "ERROR"

\* C24: the status of a successful Write names the transition taken; a
\* Write that returns a response returns an error exactly when the status
\* of the response is ERROR, and a Write refused before the transaction
\* returns an error and no response.
C24_StatusOfEveryResponse ==
    /\ \A r \in WriteRequests(db) :
          \A out \in {Result(r)} :
             out.rsp.err = "" => StatusNamesTransition(db, r, out)
    /\ \A out \in ExaminedOutcomes :
          IF out.rsp.status = NilStatus
          THEN out.rsp.err # "" /\ out.db = db
          ELSE out.rsp.err # "" <=> out.rsp.status = "ERROR"

\* an entity is stored, and in that state Writes return each of CREATED (by
\* clearHistory), UPDATED, UNCHANGED and ERROR, and one is refused before
\* the transaction
C24_Witness ==
    /\ db.entity # {}
    /\ \A st \in {"CREATED", "UPDATED", "UNCHANGED", "ERROR", NilStatus} :
          \E out \in ExaminedOutcomes : out.rsp.status = st

\* C25: the guid of an entity is assigned at creation, is not empty, differs
\* between distinct entities and never changes: after every successful
\* Write the guid of the entity row, of its history rows and of a Read of
\* the identity is the GUID of the response, and an update keeps the guid
\* the row had.
C25_GuidIsAssignedAndStable ==
    \A r \in WriteRequests(db) :
        \A out \in {Result(r)} :
            Succeeded(out) =>
                /\ out.rsp.guid # ""
                /\ \A e \in Stored(out.db, r) :
                      /\ e.guid # ""
                      /\ e.guid = out.rsp.guid
                      /\ \E h \in out.db.entity_history :
                            h.guid = e.guid /\ h.version = e.version
                /\ ReadEntity(out.db, Caller, BodyRead(r)).entity.Guid
                      = out.rsp.guid
                /\ out.rsp.status = "UPDATED" =>
                      \A old \in Stored(db, r) : old.guid = out.rsp.guid
                /\ \A e1, e2 \in out.db.entity :
                      e1.guid = e2.guid => e1 = e2

\* C26: a Write whose kind has no registered summary builder fails with
\* "unsupported kind" before any transaction is opened -- no statement is
\* reached, whichever one would fail, no version or uuid is minted, no
\* response is built -- and every relation is as it was.
C26_UnsupportedKindIsRefused ==
    \A r \in UnsupportedWrites(db), fail \in FailPoints \cup {"none"} :
        \A out \in {AdminWrite(db, Caller, r, now, ulid, nuuid, 0, fail)} :
            /\ out.rsp.err = "unsupported kind"
            /\ out.rsp.status = NilStatus
            /\ out.db = db
            /\ out.ulid = ulid
            /\ out.nuuid = nuuid

\* entities are stored and a Write of the unregistered kind that carries the
\* stored version and clearHistory is refused
C26_Witness ==
    /\ db.entity # {}
    /\ db.entity_history # {}
    /\ \E r \in UnsupportedWrites(db) :
          /\ r.ClearHistory
          /\ \E e \in db.entity : r.PreviousVersion = e.version
          /\ Result(r).rsp.err = "unsupported kind"

\* Read (of the current row and of a version), Write and History all refuse
\* the GRN with an error before any query, and nothing changes
RefusedEverywhere(g) ==
    /\ \A out \in {Result(PlainWrite(g, BodyA, NoMeta, NoVersion, FALSE))} :
          /\ out.rsp.err # ""
          /\ out.rsp.status = NilStatus
          /\ out.db = db
    /\ \A v \in {NoVersion, ZeroUlid}, f \in BOOLEAN :
          \A rd \in {ReadEntity(db, Caller, ReadRequest(g, v, f, f, f))} :
              rd.err # "" /\ rd.entity = ZeroEntity
    /\ \A t \in {"", "p2"} :
          \A rsp \in History(db, Caller, [GRN |-> g, NextPageToken |-> t]) :
              /\ rsp.err = validateGRN(Caller, g).err
              /\ rsp.err # ""
              /\ rsp.versions = <<>>

\* Read, Write and History all let the GRN through to their queries
AcceptedEverywhere(g) ==
    /\ validateGRN(Caller, g).err = ""
    /\ Result(PlainWrite(g, BodyA, NoMeta, NoVersion, FALSE)).rsp.status
          # NilStatus
    /\ \A v \in {NoVersion, ZeroUlid} :
          ReadEntity(db, Caller, ReadRequest(g, v, FALSE, FALSE, FALSE)).err
              = ""
    /\ \A rsp \in History(db, Caller, [GRN |-> g, NextPageToken |-> ""]) :
          rsp.err = ""

\* C27: a Read, Write or History request is refused with an error, before
\* any query or transaction and with no change of state, when its GRN is
\* missing, has no kind, has no identifier, has an identifier of more than
\* 64 characters or one containing any of / # $ @ ?; an identifier of
\* exactly 64 allowed characters is accepted.
C27_MalformedGRNIsRefused ==
    /\ \A g \in MalformedGRNs : RefusedEverywhere(g)
    /\ \A u \in {Uid64, Uid64Wide} :
          (Len(u) = MaxIdentifierLen /\ ~ContainsAny(u, InvalidChars)) =>
              AcceptedEverywhere([FolderGRN EXCEPT !.ResourceIdentifier = u])

\* two sub-requests of the batch differ in the flag
FlagDiffers(b, flag) == \E i, j \in DOMAIN b : b[i][flag] # b[j][flag]

\* the identities of the batch that have an entity row in the caller's
\* tenant
ExistingOf(d, b) ==
    {<<e.tenant_id, e.kind, e.uid>> : e \in BatchRows(d, Caller, b)}

\* the response carries the current entity of each of the identities, once
CurrentEntitiesOf(d, b, rsp) ==
    /\ rsp.err = ""
    /\ {GRNString(rsp.results[i].GRN) : i \in DOMAIN rsp.results}
         = ExistingOf(d, b)
    /\ Len(rsp.results) = Cardinality(ExistingOf(d, b))
    /\ \A i \in DOMAIN rsp.results :
          \E e \in d.entity :
              /\ GRNString(rsp.results[i].GRN) = <<e.tenant_id, e.kind, e.uid>>
              /\ rsp.results[i].Version = e.version

\* C28: BatchRead refuses with an error a batch in which two sub-requests
\* differ in withBody, withMeta or withSummary, a batch in which a
\* sub-request sets a version, and the empty batch; otherwise it returns the
\* current entities of exactly the requested identities that exist in the
\* caller's tenant.
C28_BatchReadAgreesOnFlags ==
    \A b \in Batches :
        \A rsp \in BatchRead(db, Caller, b) :
            IF \/ Len(b) = 0
               \/ \E i \in DOMAIN b : b[i].Version # NoVersion
               \/ FlagDiffers(b, "WithBody")
               \/ FlagDiffers(b, "WithMeta")
               \/ FlagDiffers(b, "WithSummary")
            THEN rsp.err # "" /\ rsp.results = <<>>
            ELSE CurrentEntitiesOf(db, b, rsp)

\* no field of the key holds a slash
NoSlash(k) ==
    \A f \in {k.Group, k.Kind, k.Namespace, k.Name} : ~ContainsAny(f, {"/"})

\* the number of parts the slashes of the string separate
SlashParts(str) ==
    1 + Cardinality({i \in 1..Len(str) : SubSeq(str, i, i) = "/"})

\* C29: for every key whose group, kind, namespace and name hold no slash,
\* ParseKey of its String succeeds and returns a key IsEqual to it; ParseKey
\* fails for every string that does not split into exactly five parts.
C29_ParseKeyRoundTrip ==
    call.op = "ParseKey" =>
        /\ (call.from = "String" /\ NoSlash(call.key)) =>
              call.err = "" /\ IsEqual(call.parsed, call.key)
        /\ SlashParts(call.str) # 5 => call.err # ""

\* the String of a key with a group, a kind, a namespace and a name was
\* parsed back
C29_Witness ==
    /\ call.op = "ParseKey"
    /\ call.from = "String"
    /\ NoSlash(call.key)
    /\ \A f \in {call.key.Group, call.key.Kind, call.key.Name} : f # ""
    /\ call.key.Namespace = "org-2"
    /\ call.parsed = call.key

\* the tenants named in decimal
TenantNumbers == 0..12

\* the namespaces that name no tenant
NoTenantNamespaces ==
    {"", "org", "org-", "org-x", "stack-2", "org-2-3", "2", "Default",
     "tenant--2"}

\* Key.TenantID is 1 for default and n for org-<n> and tenant-<n>, and is an
\* error for the namespaces that name no tenant
TenantIDAsSpecified(k) ==
    /\ k.Namespace = "default" => TenantID(k) = [err |-> "", id |-> 1]
    /\ \A n \in TenantNumbers, pre \in {"org-", "tenant-"} :
          k.Namespace = pre \o Itoa(n) => TenantID(k) = [err |-> "", id |-> n]
    /\ k.Namespace \in NoTenantNamespaces => TenantID(k).err # ""

\* C30: Key.TenantID maps default to tenant 1 and org-<n> or tenant-<n> to
\* n and is an error for every other namespace; and the namespace of a key,
\* converted to the tenant of the GRN and back to a namespace as
\* entityToResource does, is the namespace of the key.
C30_NamespaceRoundTrip ==
    /\ call.op \in {"ToGRN", "entityToResource"} =>
          /\ TenantIDAsSpecified(call.key)
          /\ call.err = TenantID(call.key).err
          /\ call.err = "" => call.grn.TenantID = TenantID(call.key).id
    /\ call.op = "entityToResource" =>
          /\ call.ns = call.key.Namespace
          /\ call.name = call.key.Name
\* the run neither changed the schema nor failed
NothingMigrated(s, out) ==
    /\ out.tables = s.tables
    /\ out.log = s.log
    /\ out.ran = {}
    /\ out.dropped = {}
    /\ out.removed = {}
    /\ out.txs = 0
    /\ out.err = ""

\* C31: with the entity-store feature disabled, or in the production
\* environment, MigrateEntityStore creates, drops and alters no table, runs
\* no migration, removes no log entry and returns without error -- also
\* when the log calls for the development reset and when a call it would
\* have made fails.
C31_NoSchemaChangeWhenSkipped ==
    (~schema.flag \/ schema.env = Prod) =>
        IF schema.pc = "start"
        THEN NothingMigrated(schema, MigrateEntityStore(schema))
        ELSE /\ schema.ran = {}
             /\ schema.dropped = {}
             /\ schema.removed = {}
             /\ schema.txs = 0
             /\ schema.err = ""

\* the migrator has run in production, the feature enabled, on a log that
\* holds an old marker only
C31_Witness ==
    /\ schema.pc = "done"
    /\ schema.flag
    /\ schema.env = Prod
    /\ schema.log = {OldMarker}
    /\ LogTable \in schema.tables
    /\ schema.err = ""

\* the log table exists, its log is not empty and lacks the marker
ResetCalledFor(s) == LogTable \in s.tables /\ ResetNeeded(s.log)

\* the reset left no table of the entity store and no log row, in one
\* transaction
AllDropped(out) ==
    /\ out.tables \cap (OwnedTables \cup {LogTable}) = {}
    /\ out.log = {}
    /\ out.txs = 1

\* the reset dropped no table and removed no log entry
NothingDropped(s, out) ==
    /\ out.tables = s.tables
    /\ out.log = s.log
    /\ out.dropped = {}
    /\ out.removed = {}
    /\ out.txs = 0

\* C32: when the migrator runs and no call fails, a log table whose log is
\* not empty and lacks the marker makes the reset drop every table of the
\* entity store and clear the log in one transaction, before any migration
\* runs; an empty log, a log with the marker and a missing log table make
\* it drop no table and remove no log entry.
C32_DevelopmentReset ==
    (schema.pc = "start" /\ ~Skipped(schema) /\ schema.fail = "none") =>
        IF ResetCalledFor(schema)
        THEN AllDropped(Reset(schema)) /\ Reset(schema).ran = {}
        ELSE NothingDropped(schema, Reset(schema))

\* Create of an object under the folder's key
CreateResult(obj) ==
    StorageCreate(db, Caller, FolderKey, obj, "a", now, ulid, nuuid)

\* C33: a Create for a key whose entity exists returns an error and leaves
\* the entity row, its version and the entity's history as they were, also
\* when the object differs from what is stored.
C33_CreateKeepsTheExistingEntity ==
    \A obj \in CreateObjects :
        EntityRows(db, KeyGRN(FolderKey, obj.Kind)) # {} =>
            /\ CreateResult(obj).err # ""
            /\ CreateResult(obj).db.entity = db.entity
            /\ CreateResult(obj).db.entity_history = db.entity_history

\* nothing is stored under the key
Missing(key) == EntityRows(db, KeyGRN(key, StandardKindFolder)) = {}

\* GuaranteedUpdate of the folder under a key, no statement failing
UpdateResult(key, ignoreNotFound, previousVersion, update) ==
    GuaranteedUpdate(UpdateCall(Caller, key, StandardKindFolder,
                                ignoreNotFound, previousVersion, update, now,
                                "none"),
                     db, ulid, nuuid)

\* Get on a missing key: NotFound, or no error with IgnoreNotFound
GetOfMissing(key) ==
    /\ StorageGet(db, Caller, key, FALSE,
                  Object(StandardKindFolder, "", NoStatus)).err = "NotFound"
    /\ StorageGet(db, Caller, key, TRUE,
                  Object(StandardKindFolder, "", NoStatus)) =
           [err |-> "", obj |-> Object(StandardKindFolder, "", NoStatus)]

\* GuaranteedUpdate on a missing key without ignoreNotFound: NotFound,
\* tryUpdate not called, nothing written
UpdateOfMissing(key, update) ==
    /\ UpdateResult(key, FALSE, NoVersion, update).err = "NotFound"
    /\ UpdateResult(key, FALSE, NoVersion, update).tries = 0
    /\ UpdateResult(key, FALSE, NoVersion, update).db = db

FailingUpdateResult(key, previousVersion, update, fail) ==
    GuaranteedUpdate(UpdateCall(Caller, key, StandardKindFolder, FALSE,
                                previousVersion, update, now, fail),
                     db, ulid, nuuid)

\* the call returned having called tryUpdate and the store's Write once at
\* most
AtMostOnce(out) ==
    /\ out.tries <= 1
    /\ out.writes <= 1
    /\ out.writes <= out.tries

TreeOf(d) ==
    {[tenant_id |-> e.tenant_id, uid |-> e.uid, parent |-> e.folder] :
        e \in {x \in d.entity : x.kind = StandardKindFolder}}

TreeCurrent(d) == d.folder_tree = TreeOf(d)

\* a Write that changed no entity row, or is of another kind
LeavesFolders(r, out) ==
    \/ r.GRN.ResourceKind # StandardKindFolder
    \/ out.rsp.status \notin {"CREATED", "UPDATED"}

\* Delete, every statement succeeding
DeleteResult(r) == DeleteEntity(db, Caller, r, "none")

\* C36: the committed folder tree is the tree of the committed folder
\* entities, in every state and after every Write and Delete, also after
\* one that fails at the rebuild or later in the transaction; a Write or
\* Delete of another kind, an UNCHANGED Write and a failed one leave the
\* tree as it was.
C36_FolderTreeFollowsFolders ==
    /\ TreeCurrent(db)
    /\ \A r \in WriteRequests(db) :
           /\ TreeCurrent(Result(r).db)
           /\ LeavesFolders(r, Result(r)) =>
                  Result(r).db.folder_tree = db.folder_tree
    /\ \A r \in FailingWrites(db), fail \in FailPoints :
           /\ TreeCurrent(AdminWrite(db, Caller, r, now, ulid, nuuid, 0,
                                     fail).db)
    /\ \A r \in DeleteRequests(db) :
           /\ TreeCurrent(DeleteResult(r).db)
           /\ r.GRN.ResourceKind # StandardKindFolder =>
                  DeleteResult(r).db.folder_tree = db.folder_tree

\* a folder is stored with its tree row, and its Delete leaves no tree row
C36_Witness ==
    /\ db.folder_tree # {}
    /\ DeleteResult([GRN |-> FolderGRN, PreviousVersion |-> NoVersion]).rsp.ok
    /\ DeleteResult([GRN |-> FolderGRN,
                     PreviousVersion |-> NoVersion]).db.folder_tree = {}

\* the rows of a bag that are neither of the identity nor of its children
BagOfOthers(bag, gs) ==
    [row \in {x \in DOMAIN bag : x.grn # gs /\ x.parent_grn # gs} |-> bag[row]]

\* the rows of the five relations that belong to an entity other than g
OthersOf(d, g) ==
    [entity |-> d.entity \ EntityRows(d, g),
     entity_history |-> {h \in d.entity_history :
                            \A e \in EntityRows(d, g) : h.guid # e.guid},
     entity_labels |-> BagOfOthers(d.entity_labels, GRNString(g)),
     entity_ref |-> BagOfOthers(d.entity_ref, GRNString(g)),
     entity_nested |-> BagOfOthers(d.entity_nested, GRNString(g))]

\* the identities Delete is asked for: those written and one never written
DeleteTargets ==
    ReqGRNs \cup {[TenantID |-> 0, ResourceKind |-> "playlist",
                   ResourceIdentifier |-> "zz"]}

DeleteOf(g) == DeleteResult([GRN |-> g, PreviousVersion |-> NoVersion])

\* C37: a Delete leaves the rows of every other entity in entity,
\* entity_history, entity_labels, entity_ref and entity_nested as they
\* were, and a Delete of an identity that has no entity row returns without
\* error and changes no relation.
C37_DeleteAffectsOnlyItsTarget ==
    \A g \in DeleteTargets :
        /\ OthersOf(DeleteOf(g).db, validateGRN(Caller, g).grn) =
               OthersOf(db, validateGRN(Caller, g).grn)
        /\ EntityRows(db, validateGRN(Caller, g).grn) = {} =>
               /\ DeleteOf(g).rsp.err = ""
               /\ DeleteOf(g).db = db

\* the Delete requests examined: of the identities written and of the
\* folder's key, with every previousVersion
VersionedDeletes ==
    {[GRN |-> g, PreviousVersion |-> pv] :
        g \in ReqGRNs, pv \in PreviousVersions(db)}
    \cup {StorageDeleteRequest(FolderKey, StandardKindFolder, pv) :
              pv \in PreviousVersions(db)}

\* C38: a Delete of a stored entity removes its row and returns OK
\* whatever previousVersion the request carries -- none, the stored
\* version, another one -- and no Delete fails on the optimistic lock.
C38_DeleteIgnoresPreviousVersion ==
    \A r \in VersionedDeletes :
        /\ DeleteResult(r).rsp.err # "optimistic lock failed"
        /\ Stored(db, r) # {} =>
               /\ DeleteResult(r).rsp.ok
               /\ DeleteResult(r).rsp.err = ""
               /\ Stored(DeleteResult(r).db, r) = {}
               /\ DeleteResult(r).db =
                      DeleteResult([r EXCEPT !.PreviousVersion = NoVersion]).db

\* the folder is stored and a Delete naming a version that was never
\* stored removes it
C38_Witness ==
    /\ Stored(db, [GRN |-> FolderGRN]) # {}
    /\ DeleteResult([GRN |-> FolderGRN, PreviousVersion |-> ZeroUlid]).rsp.ok
    /\ DeleteResult([GRN |-> FolderGRN,
                     PreviousVersion |-> ZeroUlid]).db.entity = {}

\* the (label, value) pairs entity_labels holds for the entity itself
IndexedLabels(d, g) ==
    {<<x.label, x.value>> :
        x \in {y \in DOMAIN d.entity_labels :
                 y.grn = GRNString(g) /\ y.parent_grn = NoParent}}

\* the labels of the builder's summary with those of the meta document
\* set over them
MergedLabels(r) == MergeLabels(prepare(r).labels, TokLabels(r.Meta))

\* the identity a Write stores under
Target(r) == validateGRN(Caller, r.GRN).grn

\* C39: after a Write that stored the entity, the labels of its meta
\* document are merged over the builder's labels in the index, and the
\* labels column of the entity row holds exactly the (label, value) pairs
\* entity_labels holds for the entity.
C39_LabelColumnAgreesWithIndex ==
    \A r \in WriteRequests(db) :
        Result(r).rsp.status \in {"CREATED", "UPDATED"} =>
            /\ MergedLabels(r) \subseteq IndexedLabels(Result(r).db, Target(r))
            /\ \A e \in EntityRows(Result(r).db, Target(r)) :
                   e.labels = IndexedLabels(Result(r).db, Target(r))

\* Search requests with and without a sort
SearchOf(sort) ==
    [Kind |-> {}, Folder |-> "", Labels |-> {}, Limit |-> 2,
     NextPageToken |-> "", Sort |-> sort]

Sorts == {<<"name">>, <<"updated_at", "name">>}

\* the call failed, returned nothing and left the relations as they were
FailedUntouched(o, returned) ==
    /\ o.rsp.err # ""
    /\ returned = <<>>
    /\ o.db = db

\* C40: Watch, a Search with a sort and a History with a page token each
\* return an error, no result, and leave every relation as it was.
C40_UnimplementedFailCleanly ==
    /\ Watch(db).err # ""
    /\ Watch(db).db = db
    /\ \A user \in Callers, sort \in Sorts :
           \A o \in Queried(db, Search(db, user, SearchOf(sort))) :
               FailedUntouched(o, o.rsp.results)
    /\ \A g \in ReqGRNs, t \in {"p2", "01"} :
           \A o \in Queried(db, History(db, Caller,
                                        [GRN |-> g, NextPageToken |-> t])) :
               FailedUntouched(o, o.rsp.versions)

\* an entity is stored which the Search without a sort returns and the
\* Search with a sort does not
C40_Witness ==
    /\ db.entity # {}
    /\ \E rsp \in Search(db, Caller, SearchOf(<<>>)) : rsp.results # <<>>
    /\ \A rsp \in Search(db, Caller, SearchOf(<<"name">>)) :
           rsp.err = "not yet supported"

====
